---- MODULE Spec2Model ----
(***************************************************************************)
(* Plan mode of the extension: planModeChat (src/unnamed/part_001) drives  *)
(* one PlanSession through orchestrator, planner, tool execution and       *)
(* solver.  Texts are sequences of tokens: a token is one character or one *)
(* run of letters ("ReadFile"), so that trimming, the step pattern and the *)
(* reference substitution are computed as the code computes them.          *)
(* provider.chatHistory and the logger are written but never read by       *)
(* planModeChat and are left out; the completion message is kept by its    *)
(* heading.                                                                *)
(***************************************************************************)
EXTENDS Naturals, Sequences, FiniteSets, TLC

VARIABLES
    sessions,       \* the PlanSession objects in memory, by object identity
    planSession,    \* provider.planSession: an object of sessions, 0 = undefined
    session,        \* planModeChat's local `session`: an object of sessions
    pc,             \* where the running planModeChat call is; "idle" = none
    question,       \* the `question` argument of the running (or last) call
    updates,        \* the snapshots handed to provider.sendPlanSessionUpdate, for
                    \* the sessions in memory, in the order they were sent
    callStart,      \* Len(updates) when the running (or last) call started
    submissions,    \* number of planModeChat calls made so far
    executions,     \* executePlanTools' local `executions`
    variables,      \* executePlanTools' local `variables`
    lastIndex,      \* executePlanTools' regex.lastIndex, as a 1-based position
    sent,           \* what the running (or last) call showed the user
    outcome,        \* how the last call ended
    registersOnStart, \* which provider method stores the new session (see startPlanSession)
    call,           \* one function of the program applied on its own: its name,
                    \* its argument and what it returned
    tree,           \* searchText: the directory tree under the resolved path
    queue,          \* searchText's local `queue`
    visited,        \* searchText's local `visited`
    scannedFiles,   \* searchText's local `scannedFiles`
    results,        \* searchText's local `results`
    reads,          \* searchText: number of fs.readFile calls made
    largestRead     \* searchText: largest stat.size among the files read

\* The locals of one searchText run and what it asked of the file system.
scanVars == <<tree, queue, visited, scannedFiles, results, reads, largestRead>>

\* The state of planModeChat.
planVars == <<sessions, planSession, session, pc, question, updates, callStart,
              submissions, executions, variables, lastIndex, sent, outcome,
              registersOnStart>>

vars == <<planVars, call, scanVars>>

\* Number of planModeChat calls explored.
MaxSubmissions == 2

-----------------------------------------------------------------------------
(* Texts *)

WhiteSpace == {" ", "\n"}

Digits == {"0", "1", "2", "3", "4", "5", "6", "7", "8", "9"}

\* Tokens that are not in the class [A-Za-z0-9_].
NonWord == WhiteSpace \cup {"#", "=", "[", "]", "|", ".", "/", ":", "?", "<fence>", "<fence json>"}

\* An optional field that is absent (JavaScript's undefined).
Undefined == <<"undefined">>

\* JavaScript truthiness of an optional string.
Truthy(v) == v # Undefined /\ v # <<>>

RECURSIVE trimStart(_)
trimStart(s) ==
    IF s # <<>> /\ Head(s) \in WhiteSpace THEN trimStart(Tail(s)) ELSE s

RECURSIVE trimEnd(_)
trimEnd(s) ==
    IF s # <<>> /\ s[Len(s)] \in WhiteSpace
    THEN trimEnd(SubSeq(s, 1, Len(s) - 1))
    ELSE s

\* String.prototype.trim
trim(s) == trimEnd(trimStart(s))

\* First position j >= i of s whose token is not in S (Len(s) + 1 if none).
SkipIn(s, i, S) ==
    CHOOSE j \in i .. Len(s) + 1 :
        /\ j = Len(s) + 1 \/ s[j] \notin S
        /\ \A m \in i .. j - 1 : s[m] \in S

\* First position j >= i of s whose token is in S (Len(s) + 1 if none).
SkipNotIn(s, i, S) ==
    CHOOSE j \in i .. Len(s) + 1 :
        /\ j = Len(s) + 1 \/ s[j] \in S
        /\ \A m \in i .. j - 1 : s[m] \notin S

\* String.prototype.toLowerCase on the word tokens the model uses.
LowerTable ==
    [w \in {"ReadFile", "READFILE", "ListFiles", "SearchText", "DeleteFile"} |->
        CASE w = "ReadFile" -> "readfile"
          [] w = "READFILE" -> "readfile"
          [] w = "ListFiles" -> "listfiles"
          [] w = "SearchText" -> "searchtext"
          [] w = "DeleteFile" -> "deletefile"]

toLowerCase(s) ==
    [i \in 1 .. Len(s) |-> IF s[i] \in DOMAIN LowerTable THEN LowerTable[s[i]] ELSE s[i]]

-----------------------------------------------------------------------------
(* Orchestrator decision *)

\* Replaces the code fences by nothing, then trims.
sanitizeJson(text) ==
    trim(SelectSeq(text, LAMBDA t : t \notin {"<fence>", "<fence json>"}))

\* JSON.parse on the documents the model's orchestrator can emit; any other
\* text is a SyntaxError.  A document is one token.
JsonDocs ==
    [d \in {"{action:clarify,question: Which file? }", "{action:clarify,question:  }",
            "{action:clarify,question:7}", "{action:proceed,summary: ok }",
            "{action:proceed}", "{action:other}", "null"} |->
        CASE d = "{action:clarify,question: Which file? }" ->
                [action |-> "clarify", question |-> <<" ", "Which file?", " ">>,
                 summary |-> Undefined]
          [] d = "{action:clarify,question:  }" ->
                [action |-> "clarify", question |-> <<" ", " ">>, summary |-> Undefined]
          [] d = "{action:clarify,question:7}" ->
                [action |-> "clarify", question |-> Undefined, summary |-> Undefined]
          [] d = "{action:proceed,summary: ok }" ->
                [action |-> "proceed", question |-> Undefined,
                 summary |-> <<" ", "ok", " ">>]
          [] d = "{action:proceed}" ->
                [action |-> "proceed", question |-> Undefined, summary |-> Undefined]
          [] d = "{action:other}" ->
                [action |-> "other", question |-> Undefined, summary |-> Undefined]
          [] d = "null" ->
                [action |-> "undefined", question |-> Undefined, summary |-> Undefined]]

\* TRUE when JSON.parse(cleaned) throws.
JsonThrows(cleaned) == ~(Len(cleaned) = 1 /\ cleaned[1] \in DOMAIN JsonDocs)

\* parseOrchestratorDecision whose fallback summary is the text as streamed.
parseOrchestratorDecision_RawSummary(raw) ==
    LET cleaned == sanitizeJson(raw)
        fallback == [action |-> "proceed", question |-> Undefined, summary |-> raw]
    IN  IF JsonThrows(cleaned) THEN fallback
        ELSE LET parsed == JsonDocs[cleaned[1]]
             IN  IF parsed.action = "clarify" /\ parsed.question # Undefined
                 THEN [action |-> "clarify", question |-> trim(parsed.question),
                       summary |-> Undefined]
                 ELSE IF parsed.action = "proceed"
                 THEN [action |-> "proceed", question |-> Undefined,
                       summary |-> IF parsed.summary # Undefined
                                   THEN trim(parsed.summary) ELSE Undefined]
                 ELSE fallback

parseOrchestratorDecision(raw) ==
    LET cleaned == sanitizeJson(raw)
        fallback == [action |-> "proceed", question |-> Undefined, summary |-> cleaned]
    IN  IF JsonThrows(cleaned) THEN fallback
        ELSE LET parsed == JsonDocs[cleaned[1]]
             IN  IF parsed.action = "clarify" /\ parsed.question # Undefined
                 THEN [action |-> "clarify", question |-> trim(parsed.question),
                       summary |-> Undefined]
                 ELSE IF parsed.action = "proceed"
                 THEN [action |-> "proceed", question |-> Undefined,
                       summary |-> IF parsed.summary # Undefined
                                   THEN trim(parsed.summary) ELSE Undefined]
                 ELSE fallback

\* runModel drains the stream and returns the trimmed text.
runModel(streamed) == trim(streamed)

-----------------------------------------------------------------------------
(* Sessions *)

Statuses ==
    {"orchestrating", "awaiting_clarifications", "planning", "executing_tools",
     "solving", "completed"}

\* provider.startPlanSession(task): a fresh session in status orchestrating whose
\* taskHistory holds the task; createdAt is the clock reading, later for a
\* later session.  The provider keeps the session as
\* provider.planSession either here (registersOnStart) or when the session is
\* first published (sendPlanSessionUpdate); both are explored.
startPlanSession(st, task) ==
    LET taken == st.used \cup DOMAIN st.heap
        id == CHOOSE i \in 1 .. Cardinality(taken) + 1 :
                  i \notin taken /\ \A o \in 1 .. i - 1 : o \in taken
        new == [id |-> id,
                createdAt |-> id,
                task |-> task,
                taskHistory |-> <<task>>,
                status |-> "orchestrating",
                clarifications |-> <<>>,
                pendingClarification |-> Undefined,
                planMarkdown |-> Undefined,
                solverSummary |-> Undefined,
                toolExecutions |-> <<>>,
                planFilePath |-> Undefined,
                orchestratorMessages |-> <<>>]
    IN  [st EXCEPT !.heap = (id :> new) @@ @,
                   !.session = id,
                   !.planSession = IF registersOnStart THEN id ELSE @]

\* provider.sendPlanSessionUpdate(session): hands a snapshot to the observer.
sendPlanSessionUpdate(st, s) ==
    [st EXCEPT !.updates = Append(@, st.heap[s]),
               !.planSession = IF registersOnStart THEN @ ELSE s]

\* answerClarification that forgets to reset the status.
answerClarification_KeepsStatus(sess, trimmedQuestion) ==
    [sess EXCEPT !.clarifications =
                     Append(@, [question |-> sess.pendingClarification,
                                answer |-> trimmedQuestion]),
                 !.pendingClarification = Undefined]

\* answerClarification that forgets to clear the pending question.
answerClarification_KeepsPending(sess, trimmedQuestion) ==
    [sess EXCEPT !.clarifications =
                     Append(@, [question |-> sess.pendingClarification,
                                answer |-> trimmedQuestion]),
                 !.status = "orchestrating"]

\* The pending question is answered by the submitted text.
answerClarification(sess, trimmedQuestion) ==
    [sess EXCEPT !.clarifications =
                     Append(@, [question |-> sess.pendingClarification,
                                answer |-> trimmedQuestion]),
                 !.pendingClarification = Undefined,
                 !.status = "orchestrating"]

\* resolveSession that restarts the task history on a refinement.
resolveSession_ReplacesHistory(st, trimmedQuestion) ==
    LET a == IF st.planSession = 0 \/ st.heap[st.planSession].status = "completed"
             THEN startPlanSession(st, trimmedQuestion)
             ELSE [st EXCEPT !.session = st.planSession]
        s == a.session
        cur == a.heap[s]
    IN  IF Truthy(cur.pendingClarification)
        THEN [a EXCEPT !.heap[s] = answerClarification(cur, trimmedQuestion)]
        ELSE IF s # a.planSession
        THEN a
        ELSE IF cur.status \in {"orchestrating", "awaiting_clarifications"}
        THEN [a EXCEPT !.heap[s].taskHistory = <<trimmedQuestion>>]
        ELSE startPlanSession(a, trimmedQuestion)

\* resolveSession that also files an answer as a task refinement.
resolveSession_AnswerJoinsHistory(st, trimmedQuestion) ==
    LET a == IF st.planSession = 0 \/ st.heap[st.planSession].status = "completed"
             THEN startPlanSession(st, trimmedQuestion)
             ELSE [st EXCEPT !.session = st.planSession]
        s == a.session
        cur == a.heap[s]
    IN  IF Truthy(cur.pendingClarification)
        THEN [a EXCEPT !.heap[s] =
                 [answerClarification(cur, trimmedQuestion)
                     EXCEPT !.taskHistory = Append(@, trimmedQuestion)]]
        ELSE IF s # a.planSession
        THEN a
        ELSE IF cur.status \in {"orchestrating", "awaiting_clarifications"}
        THEN [a EXCEPT !.heap[s].taskHistory = Append(@, trimmedQuestion)]
        ELSE startPlanSession(a, trimmedQuestion)

\* resolveSession that resumes the current session whatever its status.
resolveSession_AlwaysResumes(st, trimmedQuestion) ==
    LET a == IF st.planSession = 0
             THEN startPlanSession(st, trimmedQuestion)
             ELSE [st EXCEPT !.session = st.planSession]
        s == a.session
        cur == a.heap[s]
    IN  IF Truthy(cur.pendingClarification)
        THEN [a EXCEPT !.heap[s] = answerClarification(cur, trimmedQuestion)]
        ELSE IF s # a.planSession
        THEN a
        ELSE [a EXCEPT !.heap[s].taskHistory = Append(@, trimmedQuestion)]

\* resolveSession that resumes only to take an answer.
resolveSession_OrchestratingStartsNew(st, trimmedQuestion) ==
    LET a == IF st.planSession = 0 \/ st.heap[st.planSession].status = "completed"
             THEN startPlanSession(st, trimmedQuestion)
             ELSE [st EXCEPT !.session = st.planSession]
        s == a.session
        cur == a.heap[s]
    IN  IF Truthy(cur.pendingClarification)
        THEN [a EXCEPT !.heap[s] = answerClarification(cur, trimmedQuestion)]
        ELSE IF s # a.planSession \/ s \notin DOMAIN st.heap
        THEN a
        ELSE startPlanSession(a, trimmedQuestion)

\* The session this call works on.
resolveSession(st, trimmedQuestion) ==
    LET a == IF st.planSession = 0 \/ st.heap[st.planSession].status = "completed"
             THEN startPlanSession(st, trimmedQuestion)
             ELSE [st EXCEPT !.session = st.planSession]
        s == a.session
        cur == a.heap[s]
    IN  IF Truthy(cur.pendingClarification)
        THEN [a EXCEPT !.heap[s] = answerClarification(cur, trimmedQuestion)]
        ELSE IF s # a.planSession
        THEN a
        ELSE IF cur.status = "orchestrating"
        THEN [a EXCEPT !.heap[s].taskHistory = Append(@, trimmedQuestion)]
        ELSE IF cur.status = "awaiting_clarifications"
        THEN [a EXCEPT !.heap[s].taskHistory = Append(@, trimmedQuestion)]
        ELSE startPlanSession(a, trimmedQuestion)

\* beginAdvance that records the submitted text as typed.
beginAdvance_Untrimmed(st, q) ==
    LET r == resolveSession(st, q)
        m == [r EXCEPT !.heap[r.session].orchestratorMessages =
                           Append(@, [role |-> "user", content |-> q])]
    IN  sendPlanSessionUpdate(m, m.session)

\* The synchronous head of planModeChat, up to the first session update.
beginAdvance(st, q) ==
    LET trimmedQuestion == trim(q)
        r == resolveSession(st, trimmedQuestion)
        m == [r EXCEPT !.heap[r.session].orchestratorMessages =
                           Append(@, [role |-> "user", content |-> trimmedQuestion])]
    IN  sendPlanSessionUpdate(m, m.session)

\* When a call starts, the only session still referenced is provider.planSession:
\* the objects an earlier call replaced are gone, and so is what the observer
\* was told about them.  `used` keeps their identities from being reused at once.
Reachable ==
    LET live == DOMAIN sessions \cap {planSession}
    IN  [heap |-> [i \in live |-> sessions[i]],
         planSession |-> planSession,
         session |-> 0,
         updates |-> SelectSeq(updates, LAMBDA u : u.id \in live),
         used |-> DOMAIN sessions]

\* The program state the operators above work on.
State ==
    [heap |-> sessions, planSession |-> planSession, session |-> session,
     updates |-> updates, used |-> DOMAIN sessions]

Store(st) ==
    /\ sessions' = st.heap
    /\ planSession' = st.planSession
    /\ session' = st.session
    /\ updates' = st.updates

-----------------------------------------------------------------------------
(* Plan steps *)

MAX_TOOL_OUTPUT == 2000

\* Decimal digits of a number, as one token.
NumberToken(n) == ToString(n)

\* Decimal digits of a number, one token per digit.
RECURSIVE Decimal(_)
Decimal(n) ==
    LET digit == <<"0", "1", "2", "3", "4", "5", "6", "7", "8", "9">>[(n % 10) + 1]
    IN  IF n < 10 THEN <<digit>> ELSE Decimal(n \div 10) \o <<digit>>

\* The two pieces of the truncation notice around the count.
NoticeHead == "... (truncated "

NoticeTail == " characters)"

NoticeHeadLength == 15

NoticeTailLength == 12

\* value.length: texts that reach the limit are made of one-character tokens,
\* but for the two pieces of a truncation notice they may end with.
CharLength(text) ==
    Len(text)
        + (NoticeHeadLength - 1) * Cardinality({i \in DOMAIN text : text[i] = NoticeHead})
        + (NoticeTailLength - 1) * Cardinality({i \in DOMAIN text : text[i] = NoticeTail})

\* truncateOutput with an exclusive limit.
truncateOutput_Exclusive(value) ==
    IF CharLength(value) < MAX_TOOL_OUTPUT
    THEN value
    ELSE SubSeq(value, 1, MAX_TOOL_OUTPUT)
         \o <<"\n", NoticeHead>> \o Decimal(CharLength(value) - MAX_TOOL_OUTPUT)
         \o <<NoticeTail>>

\* The first MAX_TOOL_OUTPUT characters are the first MAX_TOOL_OUTPUT tokens.
truncateOutput(value) ==
    IF CharLength(value) <= MAX_TOOL_OUTPUT
    THEN value
    ELSE SubSeq(value, 1, MAX_TOOL_OUTPUT)
         \o <<"\n", NoticeHead>> \o Decimal(CharLength(value) - MAX_TOOL_OUTPUT)
         \o <<NoticeTail>>

NoMatch == [found |-> FALSE]

\* matchAt that accepts text after the closing bracket.
matchAt_IgnoresTrailing(plan, i) ==
    LET n == Len(plan)
        atLineStart == i = 1 \/ plan[i - 1] = "\n"
        d0 == i + 2
        d1 == IF d0 <= n + 1 THEN SkipIn(plan, d0, Digits) ELSE n + 1
        eq == SkipIn(plan, d1, WhiteSpace)
        t0 == IF eq <= n THEN SkipIn(plan, eq + 1, WhiteSpace) ELSE n + 1
        t1 == SkipNotIn(plan, t0, NonWord)
        lineEnd == IF t1 <= n THEN SkipNotIn(plan, t1 + 1, {"\n"}) ELSE n + 1
        closers == {k \in t1 + 1 .. lineEnd - 1 : plan[k] = "]"}
    IN  IF /\ atLineStart
           /\ i + 1 <= n /\ plan[i] = "#" /\ plan[i + 1] = "E"
           /\ d1 > d0
           /\ eq <= n /\ plan[eq] = "="
           /\ t1 > t0
           /\ t1 <= n /\ plan[t1] = "["
           /\ closers # {}
        THEN LET k == CHOOSE c \in closers : \A o \in closers : o <= c
                 last == lineEnd - 1
             IN  [found |-> TRUE,
                  id |-> SubSeq(plan, d0, d1 - 1),
                  toolNameRaw |-> SubSeq(plan, t0, t1 - 1),
                  rawArgument |-> SubSeq(plan, t1 + 1, k - 1),
                  index |-> i,
                  lastIndex |-> last + 1]
        ELSE NoMatch

\* One attempt of /^#E(\d+)\s*=\s*([A-Za-z0-9_]+)\[(.*)\]\s*$/m at position i:
\* \s also matches a line break, (.*) does not.
matchAt(plan, i) ==
    LET n == Len(plan)
        atLineStart == i = 1 \/ plan[i - 1] = "\n"
        d0 == i + 2
        d1 == IF d0 <= n + 1 THEN SkipIn(plan, d0, Digits) ELSE n + 1
        eq == SkipIn(plan, d1, WhiteSpace)
        t0 == IF eq <= n THEN SkipIn(plan, eq + 1, WhiteSpace) ELSE n + 1
        t1 == SkipNotIn(plan, t0, NonWord)
        lineEnd == IF t1 <= n THEN SkipNotIn(plan, t1 + 1, {"\n"}) ELSE n + 1
        closers == {k \in t1 + 1 .. lineEnd - 1 :
                       /\ plan[k] = "]"
                       /\ \A j \in k + 1 .. lineEnd - 1 : plan[j] \in WhiteSpace}
    IN  IF /\ atLineStart
           /\ i + 1 <= n /\ plan[i] = "#" /\ plan[i + 1] = "E"
           /\ d1 > d0
           /\ eq <= n /\ plan[eq] = "="
           /\ t1 > t0
           /\ t1 <= n /\ plan[t1] = "["
           /\ closers # {}
        THEN LET k == CHOOSE c \in closers : \A o \in closers : o <= c
                 w == SkipIn(plan, k + 1, WhiteSpace) - 1
                 last == IF w = n THEN n
                         ELSE CHOOSE e \in k .. w :
                                  /\ plan[e + 1] = "\n"
                                  /\ \A o \in e + 1 .. w : plan[o + 1] # "\n"
             IN  [found |-> TRUE,
                  id |-> SubSeq(plan, d0, d1 - 1),
                  toolNameRaw |-> SubSeq(plan, t0, t1 - 1),
                  rawArgument |-> SubSeq(plan, t1 + 1, k - 1),
                  index |-> i,
                  lastIndex |-> last + 1]
        ELSE NoMatch

\* exec that returns the last match at or after `from`.
exec_LastMatch(plan, from) ==
    LET matches == {m \in {matchAt(plan, i) : i \in from .. Len(plan)} : m.found}
    IN  IF matches = {} THEN NoMatch
        ELSE CHOOSE m \in matches : \A o \in matches : o.index <= m.index

\* regex.exec(plan) with the g flag: the first match at or after `from`.
exec(plan, from) ==
    LET matches == {m \in {matchAt(plan, i) : i \in from .. Len(plan)} : m.found}
    IN  IF matches = {} THEN NoMatch
        ELSE CHOOSE m \in matches : \A o \in matches : m.index <= o.index

\* rawArgument.replace(/#E(\d+)/g, ...): a reference whose id is in the table
\* becomes the stored output, any other reference stays as written.
RECURSIVE replaceReferences(_, _)
replaceReferences(arg, table) ==
    IF arg = <<>> THEN <<>>
    ELSE IF Len(arg) >= 3 /\ arg[1] = "#" /\ arg[2] = "E" /\ arg[3] \in Digits
    THEN LET e == SkipIn(arg, 3, Digits)
             referenceId == SubSeq(arg, 3, e - 1)
             rest == SubSeq(arg, e, Len(arg))
         IN  (IF referenceId \in DOMAIN table
              THEN table[referenceId]
              ELSE <<"#", "E">> \o referenceId)
             \o replaceReferences(rest, table)
    ELSE <<Head(arg)>> \o replaceReferences(Tail(arg), table)

-----------------------------------------------------------------------------
(* Tool executors.  `env` is what the workspace gives one call: whether the *)
(* path resolver throws, finds no root or resolves, and what the file       *)
(* system then answers.                                                     *)

Returned(text) == [threw |-> FALSE, value |-> text]
Threw(message) == [threw |-> TRUE, value |-> message]

listFiles(env, argument) ==
    IF env.resolver = "throws" THEN Threw(env.message)
    ELSE IF env.resolver = "none"
    THEN Returned(<<"Workspace folder is not available for ListFiles.">>)
    ELSE IF env.fs = "error" THEN Returned(<<"ListFiles error: ">> \o env.message)
    ELSE IF env.content = <<>> THEN Returned(<<"(empty directory)">>)
    ELSE Returned(env.content)

\* readFile that lets a failure of the file system escape as an exception.
readFile_Throws(env, argument) ==
    IF env.resolver = "throws" THEN Threw(env.message)
    ELSE IF env.resolver = "none"
    THEN Returned(<<"Unable to resolve path for ReadFile.">>)
    ELSE IF env.fs = "error" THEN Threw(env.message)
    ELSE IF env.fs = "directory" THEN Threw(<<"EISDIR">>)
    ELSE Returned(truncateOutput(env.content))

readFile(env, argument) ==
    IF env.resolver = "throws" THEN Threw(env.message)
    ELSE IF env.resolver = "none"
    THEN Returned(<<"Unable to resolve path for ReadFile.">>)
    ELSE IF env.fs = "error" THEN Returned(<<"ReadFile error: ">> \o env.message)
    ELSE IF env.fs = "directory"
    THEN Returned(<<"ReadFile error: target is a directory.">>)
    ELSE Returned(truncateOutput(env.content))

\* const [pattern, rawPath] = argument.split("|").map((part) => part.trim()),
\* and the path handed to the resolver, rawPath || ".".
splitArgument(argument) ==
    LET n == Len(argument)
        bar1 == SkipNotIn(argument, 1, {"|"})
        bar2 == IF bar1 <= n THEN SkipNotIn(argument, bar1 + 1, {"|"}) ELSE n + 1
        rawPath == IF bar1 <= n THEN trim(SubSeq(argument, bar1 + 1, bar2 - 1))
                   ELSE Undefined
    IN  [pattern |-> trim(SubSeq(argument, 1, bar1 - 1)),
         rawPath |-> rawPath,
         path |-> IF Truthy(rawPath) THEN rawPath ELSE <<".">>]

\* The scan of the tree is summed up by env.content, the joined result lines.
searchText(env, argument) ==
    LET pattern == splitArgument(argument).pattern
    IN  IF pattern = <<>> THEN Returned(<<"SearchText requires a pattern argument.">>)
        ELSE IF env.resolver = "throws" THEN Threw(env.message)
        ELSE IF env.resolver = "none"
        THEN Returned(<<"Unable to resolve search path inside the workspace.">>)
        ELSE IF env.fs # "ok" \/ env.content = <<>>
        THEN Returned(<<"No results from SearchText.">>)
        ELSE Returned(truncateOutput(env.content))

\* runStep that records the tool name in lower case.
runStep_LowercaseTool(m, table, env) ==
    LET toolName == toLowerCase(trim(m.toolNameRaw))
        resolvedArgument == replaceReferences(m.rawArgument, table)
        argument == trim(resolvedArgument)
        base == [id |-> <<"#", "E">> \o m.id,
                 tool |-> toolName,
                 argument |-> argument,
                 output |-> <<>>,
                 error |-> Undefined]
        executor == IF toolName = <<"listfiles">> THEN "listFiles"
                    ELSE IF toolName = <<"readfile">> THEN "readFile"
                    ELSE IF toolName = <<"searchtext">> THEN "searchText"
                    ELSE "none"
        result == IF executor = "listFiles" THEN listFiles(env, argument)
                  ELSE IF executor = "readFile" THEN readFile(env, argument)
                  ELSE searchText(env, argument)
    IN  IF executor = "none"
        THEN [execution |-> [base EXCEPT !.error = <<"Unsupported tool: ">> \o m.toolNameRaw],
              variables |-> table,
              executor |-> executor]
        ELSE IF result.threw
        THEN [execution |-> [base EXCEPT !.error = result.value],
              variables |-> table,
              executor |-> executor]
        ELSE [execution |-> [base EXCEPT !.output = result.value],
              variables |-> (m.id :> result.value) @@ table,
              executor |-> executor]

\* runStep whose message for an unknown tool names it in lower case.
runStep_LowercaseName(m, table, env) ==
    LET toolName == toLowerCase(trim(m.toolNameRaw))
        resolvedArgument == replaceReferences(m.rawArgument, table)
        argument == trim(resolvedArgument)
        base == [id |-> <<"#", "E">> \o m.id,
                 tool |-> trim(m.toolNameRaw),
                 argument |-> argument,
                 output |-> <<>>,
                 error |-> Undefined]
        executor == IF toolName = <<"listfiles">> THEN "listFiles"
                    ELSE IF toolName = <<"readfile">> THEN "readFile"
                    ELSE IF toolName = <<"searchtext">> THEN "searchText"
                    ELSE "none"
        result == IF executor = "listFiles" THEN listFiles(env, argument)
                  ELSE IF executor = "readFile" THEN readFile(env, argument)
                  ELSE searchText(env, argument)
    IN  IF executor = "none"
        THEN [execution |-> [base EXCEPT !.error = <<"Unsupported tool: ">> \o toolName],
              variables |-> table,
              executor |-> executor]
        ELSE IF result.threw
        THEN [execution |-> [base EXCEPT !.error = result.value],
              variables |-> table,
              executor |-> executor]
        ELSE [execution |-> [base EXCEPT !.output = result.value],
              variables |-> (m.id :> result.value) @@ table,
              executor |-> executor]

\* runStep that records the argument as written.
runStep_RawArgument(m, table, env) ==
    LET toolName == toLowerCase(trim(m.toolNameRaw))
        resolvedArgument == replaceReferences(m.rawArgument, table)
        argument == trim(resolvedArgument)
        base == [id |-> <<"#", "E">> \o m.id,
                 tool |-> trim(m.toolNameRaw),
                 argument |-> trim(m.rawArgument),
                 output |-> <<>>,
                 error |-> Undefined]
        executor == IF toolName = <<"listfiles">> THEN "listFiles"
                    ELSE IF toolName = <<"readfile">> THEN "readFile"
                    ELSE IF toolName = <<"searchtext">> THEN "searchText"
                    ELSE "none"
        result == IF executor = "listFiles" THEN listFiles(env, argument)
                  ELSE IF executor = "readFile" THEN readFile(env, argument)
                  ELSE searchText(env, argument)
    IN  IF executor = "none"
        THEN [execution |-> [base EXCEPT !.error = <<"Unsupported tool: ">> \o m.toolNameRaw],
              variables |-> table,
              executor |-> executor]
        ELSE IF result.threw
        THEN [execution |-> [base EXCEPT !.error = result.value],
              variables |-> table,
              executor |-> executor]
        ELSE [execution |-> [base EXCEPT !.output = result.value],
              variables |-> (m.id :> result.value) @@ table,
              executor |-> executor]

\* runStep that enters a step in the table also when it has recorded an error.
runStep_StoresOnError(m, table, env) ==
    LET toolName == toLowerCase(trim(m.toolNameRaw))
        resolvedArgument == replaceReferences(m.rawArgument, table)
        argument == trim(resolvedArgument)
        base == [id |-> <<"#", "E">> \o m.id,
                 tool |-> trim(m.toolNameRaw),
                 argument |-> argument,
                 output |-> <<>>,
                 error |-> Undefined]
        executor == IF toolName = <<"listfiles">> THEN "listFiles"
                    ELSE IF toolName = <<"readfile">> THEN "readFile"
                    ELSE IF toolName = <<"searchtext">> THEN "searchText"
                    ELSE "none"
        result == IF executor = "listFiles" THEN listFiles(env, argument)
                  ELSE IF executor = "readFile" THEN readFile(env, argument)
                  ELSE searchText(env, argument)
    IN  IF executor = "none"
        THEN [execution |-> [base EXCEPT !.error = <<"Unsupported tool: ">> \o m.toolNameRaw],
              variables |-> (m.id :> <<>>) @@ table,
              executor |-> executor]
        ELSE IF result.threw
        THEN [execution |-> [base EXCEPT !.error = result.value],
              variables |-> table,
              executor |-> executor]
        ELSE [execution |-> [base EXCEPT !.output = result.value],
              variables |-> (m.id :> result.value) @@ table,
              executor |-> executor]

\* runStep that copies the message of an exception into the output.
runStep_OutputWithError(m, table, env) ==
    LET toolName == toLowerCase(trim(m.toolNameRaw))
        resolvedArgument == replaceReferences(m.rawArgument, table)
        argument == trim(resolvedArgument)
        base == [id |-> <<"#", "E">> \o m.id,
                 tool |-> trim(m.toolNameRaw),
                 argument |-> argument,
                 output |-> <<>>,
                 error |-> Undefined]
        executor == IF toolName = <<"listfiles">> THEN "listFiles"
                    ELSE IF toolName = <<"readfile">> THEN "readFile"
                    ELSE IF toolName = <<"searchtext">> THEN "searchText"
                    ELSE "none"
        result == IF executor = "listFiles" THEN listFiles(env, argument)
                  ELSE IF executor = "readFile" THEN readFile(env, argument)
                  ELSE searchText(env, argument)
    IN  IF executor = "none"
        THEN [execution |-> [base EXCEPT !.error = <<"Unsupported tool: ">> \o m.toolNameRaw],
              variables |-> table,
              executor |-> executor]
        ELSE IF result.threw
        THEN [execution |-> [base EXCEPT !.error = result.value, !.output = result.value],
              variables |-> table,
              executor |-> executor]
        ELSE [execution |-> [base EXCEPT !.output = result.value],
              variables |-> (m.id :> result.value) @@ table,
              executor |-> executor]

\* runStep that keeps the first output stored for an id.
runStep_KeepsFirst(m, table, env) ==
    LET toolName == toLowerCase(trim(m.toolNameRaw))
        resolvedArgument == replaceReferences(m.rawArgument, table)
        argument == trim(resolvedArgument)
        base == [id |-> <<"#", "E">> \o m.id,
                 tool |-> trim(m.toolNameRaw),
                 argument |-> argument,
                 output |-> <<>>,
                 error |-> Undefined]
        executor == IF toolName = <<"listfiles">> THEN "listFiles"
                    ELSE IF toolName = <<"readfile">> THEN "readFile"
                    ELSE IF toolName = <<"searchtext">> THEN "searchText"
                    ELSE "none"
        result == IF executor = "listFiles" THEN listFiles(env, argument)
                  ELSE IF executor = "readFile" THEN readFile(env, argument)
                  ELSE searchText(env, argument)
    IN  IF executor = "none"
        THEN [execution |-> [base EXCEPT !.error = <<"Unsupported tool: ">> \o m.toolNameRaw],
              variables |-> table,
              executor |-> executor]
        ELSE IF result.threw
        THEN [execution |-> [base EXCEPT !.error = result.value],
              variables |-> table,
              executor |-> executor]
        ELSE [execution |-> [base EXCEPT !.output = result.value],
              variables |-> table @@ (m.id :> result.value),
              executor |-> executor]

\* One iteration of executePlanTools' loop for the match m: the execution
\* record, the table after it, and the executor that was called.
runStep(m, table, env) ==
    LET toolName == toLowerCase(trim(m.toolNameRaw))
        resolvedArgument == replaceReferences(m.rawArgument, table)
        argument == trim(resolvedArgument)
        base == [id |-> <<"#", "E">> \o m.id,
                 tool |-> trim(m.toolNameRaw),
                 argument |-> argument,
                 output |-> <<>>,
                 error |-> Undefined]
        executor == IF toolName = <<"listfiles">> THEN "listFiles"
                    ELSE IF toolName = <<"readfile">> THEN "readFile"
                    ELSE IF toolName = <<"searchtext">> THEN "searchText"
                    ELSE "none"
        result == IF executor = "listFiles" THEN listFiles(env, argument)
                  ELSE IF executor = "readFile" THEN readFile(env, argument)
                  ELSE searchText(env, argument)
    IN  IF executor = "none"
        THEN [execution |-> [base EXCEPT !.error = <<"Unsupported tool: ">> \o m.toolNameRaw],
              variables |-> table,
              executor |-> executor]
        ELSE IF result.threw
        THEN [execution |-> [base EXCEPT !.error = result.value],
              variables |-> table,
              executor |-> executor]
        ELSE [execution |-> [base EXCEPT !.output = result.value],
              variables |-> (m.id :> result.value) @@ table,
              executor |-> executor]

-----------------------------------------------------------------------------
(* Inputs *)

\* Task texts the driver submits.
Questions == {<<" ", "add tests", "\n">>, <<"parser.go">>}

\* Texts streamed by the orchestrator stage.
OrchestratorTexts ==
    {<<"<fence json>", "\n", "{action:clarify,question: Which file? }", "\n", "<fence>">>,
     <<"{action:clarify,question:  }">>,
     <<"{action:proceed,summary: ok }", "\n">>,
     <<"I", " ", "cannot", " ", "decide">>}

\* Texts streamed by the planner stage.
PlannerTexts ==
    {<<"Plan", ":", " ", "look", "\n",
       "#", "E", "1", " ", "=", " ", "ReadFile", "[", "parser.go", "]", "\n",
       "#", "E", "2", " ", "=", " ", "DeleteFile", "[", "#", "E", "1", "]", "\n">>,
     <<"no", " ", "steps">>}

\* Texts streamed by the solver stage.
SolverTexts == {<<"## Summary", "\n">>, <<" ">>}

\* What the workspace answers to one tool call.
ToolEnvs ==
    {[resolver |-> "ok", fs |-> "ok", content |-> <<"package parser">>, message |-> <<>>],
     [resolver |-> "none", fs |-> "ok", content |-> <<>>, message |-> <<>>],
     [resolver |-> "throws", fs |-> "ok", content |-> <<>>, message |-> <<"resolver failed">>]}

\* provider.persistPlanContent: stores the document and sets planFilePath, or
\* finds no workspace root; a call that fails instead is the action Fails.
PersistOutcomes == {"stored", "none"}

-----------------------------------------------------------------------------
(* planModeChat *)

ErrorNotice ==
    [type |-> "addError",
     value |-> <<"Plan Mode failed to generate a plan. Check logs for additional details.">>]

Response(text) == [type |-> "response", value |-> text]

buildClarifyingResponse(q, clarifications) ==
    LET entry(i) == <<NumberToken(i), ". **">> \o clarifications[i].question
                    \o <<"**\n   - ">> \o clarifications[i].answer
        RECURSIVE join(_)
        join(i) == IF i > Len(clarifications) THEN <<>>
                   ELSE (IF i > 1 THEN <<"\n">> ELSE <<>>) \o entry(i) \o join(i + 1)
        history == join(1)
        historyBlock == IF history # <<>>
                        THEN <<"\n\nCurrent clarifications:\n">> \o history ELSE <<>>
    IN  <<"### Clarifying Question\n">> \o q \o historyBlock
        \o <<"\n\nPlease reply with the requested details so the planner can continue.">>

\* No function is applied on its own, no search runs.
NoCall == [op |-> "none", input |-> <<>>, result |-> Undefined]

NoScan ==
    /\ tree = "none"
    /\ queue = <<>>
    /\ visited = {}
    /\ scannedFiles = 0
    /\ results = <<>>
    /\ reads = 0
    /\ largestRead = 0

Init ==
    /\ sessions = <<>>
    /\ planSession = 0
    /\ session = 0
    /\ pc = "idle"
    /\ question = <<>>
    /\ updates = <<>>
    /\ callStart = 0
    /\ submissions = 0
    /\ executions = <<>>
    /\ variables = <<>>
    /\ lastIndex = 1
    /\ sent = <<>>
    /\ outcome = "none"
    /\ registersOnStart \in BOOLEAN
    /\ call = NoCall
    /\ NoScan

\* planModeChat is called: the session is resolved, the submitted text recorded
\* and the session published; without a model the call throws.
Submit(q, hasModel) ==
    /\ pc = "idle"
    /\ submissions < MaxSubmissions
    /\ submissions' = submissions + 1
    /\ question' = q
    /\ callStart' = Len(Reachable.updates)
    /\ Store(beginAdvance(Reachable, q))
    /\ sent' = <<>>
    /\ pc' = IF hasModel THEN "orchestrator" ELSE "idle"
    /\ outcome' = IF hasModel THEN "running" ELSE "threw"
    /\ UNCHANGED <<executions, variables, lastIndex, registersOnStart, call, scanVars>>

\* clarify that keeps the question out of the orchestrator transcript.
clarify_Unrecorded(st, decision) ==
    LET s == st.session
        a == [st EXCEPT !.heap[s].status = "awaiting_clarifications",
                        !.heap[s].pendingClarification = decision.question]
    IN  sendPlanSessionUpdate(a, s)

\* clarify that leaves the status as it was.
clarify_KeepsStatus(st, decision) ==
    LET s == st.session
        a == [st EXCEPT !.heap[s].pendingClarification = decision.question,
                        !.heap[s].orchestratorMessages =
                            Append(@, [role |-> "assistant", content |-> decision.question])]
    IN  sendPlanSessionUpdate(a, s)

\* The orchestrator asked a question: the advance pauses.
clarify(st, decision) ==
    LET s == st.session
        a == [st EXCEPT !.heap[s].status = "awaiting_clarifications",
                        !.heap[s].pendingClarification = decision.question,
                        !.heap[s].orchestratorMessages =
                            Append(@, [role |-> "assistant", content |-> decision.question])]
    IN  sendPlanSessionUpdate(a, s)

\* startPlanning that does not tell the observer.
startPlanning_Unpublished(st) ==
    [st EXCEPT !.heap[st.session].status = "planning"]

\* The orchestrator lets planning start.
startPlanning(st) ==
    sendPlanSessionUpdate([st EXCEPT !.heap[st.session].status = "planning"], st.session)

OrchestratorReturns(streamed) ==
    /\ pc = "orchestrator"
    /\ LET decision == parseOrchestratorDecision(runModel(streamed))
       IN  IF decision.action = "clarify" /\ Truthy(decision.question)
           THEN /\ Store(clarify(State, decision))
                /\ sent' = Append(sent, Response(buildClarifyingResponse(
                               decision.question, sessions[session].clarifications)))
                /\ pc' = "idle"
                /\ outcome' = "clarify"
           ELSE /\ Store(startPlanning(State))
                /\ pc' = "planner"
                /\ UNCHANGED <<sent, outcome>>
    /\ UNCHANGED <<question, callStart, submissions, executions, variables, lastIndex,
                   registersOnStart, call, scanVars>>

\* The plan text is stored and published, then tool execution starts.
startExecuting(st, text) ==
    LET s == st.session
        a == sendPlanSessionUpdate([st EXCEPT !.heap[s].planMarkdown = text], s)
    IN  sendPlanSessionUpdate([a EXCEPT !.heap[s].status = "executing_tools"], s)

\* PlannerReturns that goes on to the solver without a tool pass.
PlannerReturns_SkipsTools(streamed) ==
    /\ pc = "planner"
    /\ Store(startExecuting(State, runModel(streamed)))
    /\ executions' = <<>>
    /\ variables' = <<>>
    /\ lastIndex' = 1
    /\ pc' = "solver"
    /\ UNCHANGED <<question, callStart, submissions, sent, outcome, registersOnStart, call, scanVars>>

PlannerReturns(streamed) ==
    /\ pc = "planner"
    /\ Store(startExecuting(State, runModel(streamed)))
    /\ executions' = <<>>
    /\ variables' = <<>>
    /\ lastIndex' = 1
    /\ pc' = "tools"
    /\ UNCHANGED <<question, callStart, submissions, sent, outcome, registersOnStart, call, scanVars>>

\* session.planMarkdown || ""
planOf(sess) == IF Truthy(sess.planMarkdown) THEN sess.planMarkdown ELSE <<>>

\* recordStep that does not tell the observer.
recordStep_Unpublished(st, all) ==
    [st EXCEPT !.heap[st.session].toolExecutions = all]

\* The record of one step is appended and the session published.
recordStep(st, all) ==
    sendPlanSessionUpdate([st EXCEPT !.heap[st.session].toolExecutions = all], st.session)

\* ToolStep that lets an exception of the executor end the call.
ToolStep_Unguarded(env) ==
    /\ pc = "tools"
    /\ LET m == exec(planOf(sessions[session]), lastIndex)
       IN  /\ m.found
           /\ LET r == runStep(m, variables, env)
                  all == Append(executions, r.execution)
              IN  IF r.execution.error # Undefined /\ r.executor # "none"
                  THEN /\ pc' = "idle"
                       /\ outcome' = "failed"
                       /\ sent' = Append(sent, ErrorNotice)
                       /\ UNCHANGED <<sessions, planSession, session, updates,
                                      executions, variables, lastIndex>>
                  ELSE /\ executions' = all
                       /\ variables' = r.variables
                       /\ lastIndex' = m.lastIndex
                       /\ Store(recordStep(State, all))
                       /\ UNCHANGED <<pc, sent, outcome>>
    /\ UNCHANGED <<question, callStart, submissions, registersOnStart, call, scanVars>>

\* One iteration of executePlanTools' loop.
ToolStep(env) ==
    /\ pc = "tools"
    /\ \E m \in {exec(planOf(sessions[session]), lastIndex)} :
           /\ m.found
           /\ \E r \in {runStep(m, variables, env)} :
                  \E all \in {Append(executions, r.execution)} :
                      /\ executions' = all
                      /\ variables' = r.variables
                      /\ lastIndex' = m.lastIndex
                      /\ Store(recordStep(State, all))
    /\ UNCHANGED <<pc, question, callStart, submissions, sent, outcome, registersOnStart, call, scanVars>>

\* executePlanTools returned: its records are stored, then solving starts.
startSolving(st, all) ==
    LET s == st.session
        a == sendPlanSessionUpdate([st EXCEPT !.heap[s].toolExecutions = all], s)
    IN  sendPlanSessionUpdate([a EXCEPT !.heap[s].status = "solving"], s)

\* ToolsDone that also ends the pass once a step has recorded an error.
ToolsDone_OnError ==
    /\ pc = "tools"
    /\ \/ ~exec(planOf(sessions[session]), lastIndex).found
       \/ \E i \in DOMAIN executions : executions[i].error # Undefined
    /\ Store(startSolving(State, executions))
    /\ executions' = <<>>
    /\ variables' = <<>>
    /\ lastIndex' = 1
    /\ pc' = "solver"
    /\ UNCHANGED <<question, callStart, submissions, sent, outcome, registersOnStart, call, scanVars>>

ToolsDone ==
    /\ pc = "tools"
    /\ ~exec(planOf(sessions[session]), lastIndex).found
    /\ Store(startSolving(State, executions))
    /\ executions' = <<>>
    /\ variables' = <<>>
    /\ lastIndex' = 1
    /\ pc' = "solver"
    /\ UNCHANGED <<question, callStart, submissions, sent, outcome, registersOnStart, call, scanVars>>

\* SolverReturns that drops the solver's text.
SolverReturns_SkipsSummary(streamed) ==
    /\ pc = "solver"
    /\ pc' = "persist"
    /\ UNCHANGED <<sessions, planSession, session, question, updates, callStart, submissions,
                   executions, variables, lastIndex, sent, outcome, registersOnStart, call, scanVars>>

\* The solver's text is stored; the plan document goes to the persistence sink.
SolverReturns(streamed) ==
    /\ pc = "solver"
    /\ sessions' = [sessions EXCEPT ![session].solverSummary = runModel(streamed)]
    /\ pc' = "persist"
    /\ UNCHANGED <<planSession, session, question, updates, callStart, submissions,
                   executions, variables, lastIndex, sent, outcome, registersOnStart, call, scanVars>>

formatClarificationsForResponse(clarifications) ==
    LET entry(i) == <<NumberToken(i), ". **">> \o clarifications[i].question
                    \o <<"**\n   - ">> \o clarifications[i].answer
        RECURSIVE join(_)
        join(i) == IF i > Len(clarifications) THEN <<>>
                   ELSE (IF i > 1 THEN <<"\n">> ELSE <<>>) \o entry(i) \o join(i + 1)
    IN  IF Len(clarifications) = 0 THEN <<"(none)">> ELSE join(1)

\* formatToolObservationsForResponse that shows every output in full.
formatToolObservationsForResponse_Untruncated(execs) ==
    LET body(e) == IF Truthy(e.error) THEN <<"ERROR: ">> \o e.error
                   ELSE e.output
        entry(e) == <<"- ">> \o e.id \o <<" ">> \o e.tool \o <<"[">> \o e.argument
                    \o <<"]", "\n", "  ">> \o body(e)
        RECURSIVE join(_)
        join(i) == IF i > Len(execs) THEN <<>>
                   ELSE (IF i > 1 THEN <<"\n">> ELSE <<>>) \o entry(execs[i]) \o join(i + 1)
    IN  IF Len(execs) = 0 THEN <<"No tools were executed.">> ELSE join(1)

formatToolObservationsForResponse(execs) ==
    LET body(e) == IF Truthy(e.error) THEN <<"ERROR: ">> \o e.error
                   ELSE truncateOutput(e.output)
        entry(e) == <<"- ">> \o e.id \o <<" ">> \o e.tool \o <<"[">> \o e.argument
                    \o <<"]", "\n", "  ">> \o body(e)
        RECURSIVE join(_)
        join(i) == IF i > Len(execs) THEN <<>>
                   ELSE (IF i > 1 THEN <<"\n">> ELSE <<>>) \o entry(execs[i]) \o join(i + 1)
    IN  IF Len(execs) = 0 THEN <<"No tools were executed.">> ELSE join(1)

\* The completion message; "<tick>" stands for a backtick.
buildFinalResponse(sess) ==
    LET clarificationsBlock == formatClarificationsForResponse(sess.clarifications)
        planBlock == IF Truthy(sess.planMarkdown)
                     THEN <<"\n\n### Planner Draft\n\n", "<fence>", "text\n">>
                          \o sess.planMarkdown \o <<"\n", "<fence>">>
                     ELSE <<>>
        solverBlock == IF Truthy(sess.solverSummary)
                       THEN <<"\n\n### Solver Summary\n">> \o sess.solverSummary
                       ELSE <<>>
        toolBlock == <<"\n\n### Tool Observations\n">>
                     \o formatToolObservationsForResponse(sess.toolExecutions)
        storageLine == IF Truthy(sess.planFilePath)
                       THEN <<"Plan saved to ", "<tick>">> \o sess.planFilePath
                            \o <<"<tick>", " and opened for editing.">>
                       ELSE <<"Plan saved in memory (workspace folder not detected).">>
    IN  <<"## Plan ready\n">> \o storageLine \o <<"\n\n### Clarifications\n">>
        \o clarificationsBlock \o planBlock \o toolBlock \o solverBlock

\* new Date(ms).toISOString(), for a clock reading within the first second.
toISOString(ms) ==
    LET digits == Decimal(ms)
    IN  <<"1970-01-01T00:00:00.">> \o [i \in 1 .. 3 - Len(digits) |-> "0"] \o digits
        \o <<"Z">>

\* lines.join("\n")
RECURSIVE joinLines(_)
joinLines(lines) ==
    IF lines = <<>> THEN <<>>
    ELSE IF Len(lines) = 1 THEN lines[1]
    ELSE lines[1] \o <<"\n">> \o joinLines(Tail(lines))

\* The lines of the plan document for the clarifications.
RECURSIVE clarificationLines(_, _)
clarificationLines(clarifications, index) ==
    IF index > Len(clarifications) THEN <<>>
    ELSE << <<NumberToken(index), ". ">> \o clarifications[index].question,
            <<"   - ">> \o clarifications[index].answer >>
         \o clarificationLines(clarifications, index + 1)

\* The lines of the plan document for the tool executions.
RECURSIVE executionLines(_)
executionLines(execs) ==
    IF execs = <<>> THEN <<>>
    ELSE LET execution == Head(execs)
         IN  << <<"- ">> \o execution.id \o <<" ">> \o execution.tool \o <<"[">>
                    \o execution.argument \o <<"]">>,
                IF Truthy(execution.error)
                THEN <<"  - ERROR: ">> \o execution.error
                ELSE <<"  - ">> \o execution.output >>
             \o executionLines(Tail(execs))

\* The persisted plan document.
buildPlanDocument(sess) ==
    joinLines(
        << <<"# Plan for ">> \o sess.task,
           <<>>,
           <<"Generated: ">> \o toISOString(sess.createdAt),
           <<>>,
           <<"## Clarifications">> >>
        \o (IF Len(sess.clarifications) = 0 THEN << <<"- None provided">> >>
            ELSE clarificationLines(sess.clarifications, 1))
        \o << <<>>,
              <<"## Plan">>,
              <<"<fence>", "text">>,
              IF Truthy(sess.planMarkdown) THEN sess.planMarkdown
              ELSE <<"(planner did not return a plan)">>,
              <<"<fence>">>,
              <<>>,
              <<"## Tool Observations">> >>
        \o (IF Len(sess.toolExecutions) = 0 THEN << <<"- No tools executed">> >>
            ELSE executionLines(sess.toolExecutions))
        \o << <<>>,
              <<"## Final Summary">>,
              IF Truthy(sess.solverSummary) THEN sess.solverSummary
              ELSE <<"Summary pending">> >>)

\* After persistPlanContent the session is completed and published.
complete(st, result) ==
    LET s == st.session
        a == [st EXCEPT !.heap[s].planFilePath =
                            IF result = "stored" THEN <<"plan.md">> ELSE @]
    IN  sendPlanSessionUpdate([a EXCEPT !.heap[s].status = "completed"], s)

PersistReturns(result) ==
    /\ pc = "persist"
    /\ Store(complete(State, result))
    /\ LET done == complete(State, result)
       IN  sent' = Append(sent, Response(buildFinalResponse(done.heap[done.session])))
    /\ pc' = "idle"
    /\ outcome' = "completed"
    /\ UNCHANGED <<question, callStart, submissions, executions, variables, lastIndex,
                   registersOnStart, call, scanVars>>

\* ModelAborts that reports the abort as a failure.
ModelAborts_Notifies ==
    /\ pc \in {"orchestrator", "planner", "solver"}
    /\ pc' = "idle"
    /\ outcome' = "aborted"
    /\ sent' = Append(sent, ErrorNotice)
    /\ UNCHANGED <<sessions, planSession, session, question, updates, callStart,
                   submissions, executions, variables, lastIndex, registersOnStart, call, scanVars>>

\* The cancellation signal aborts the model stream: the call returns silently.
ModelAborts ==
    /\ pc \in {"orchestrator", "planner", "solver"}
    /\ pc' = "idle"
    /\ outcome' = "aborted"
    /\ UNCHANGED <<sessions, planSession, session, question, updates, callStart,
                   submissions, executions, variables, lastIndex, sent, registersOnStart, call, scanVars>>

\* Fails that tells the user nothing.
Fails_Silent ==
    /\ pc \in {"orchestrator", "planner", "solver", "persist"}
    /\ pc' = "idle"
    /\ outcome' = "failed"
    /\ UNCHANGED <<sessions, planSession, session, question, updates, callStart,
                   submissions, executions, variables, lastIndex, sent, registersOnStart, call, scanVars>>

\* Any other exception inside the try block: one failure notice.
Fails ==
    /\ pc \in {"orchestrator", "planner", "solver", "persist"}
    /\ sent' = Append(sent, ErrorNotice)
    /\ pc' = "idle"
    /\ outcome' = "failed"
    /\ UNCHANGED <<sessions, planSession, session, question, updates, callStart,
                   submissions, executions, variables, lastIndex, registersOnStart, call, scanVars>>

Next ==
    \/ \E q \in Questions, hasModel \in BOOLEAN : Submit(q, hasModel)
    \/ \E t \in OrchestratorTexts : OrchestratorReturns(t)
    \/ \E t \in PlannerTexts : PlannerReturns(t)
    \/ \E env \in ToolEnvs : ToolStep(env)
    \/ ToolsDone
    \/ \E t \in SolverTexts : SolverReturns(t)
    \/ \E r \in PersistOutcomes : PersistReturns(r)
    \/ ModelAborts
    \/ Fails

Spec == Init /\ [][Next]_vars

-----------------------------------------------------------------------------
(* Advances in which every model, tool and persist call returns: no abort  *)
(* and no failure, and each call that was started comes back.               *)

\* The planner may also stream nothing.
LivePlannerTexts == PlannerTexts \cup {<<>>, <<" ", "\n">>}

\* One task text, one solver text and one persist outcome are enough here.
Returns ==
    \/ \E t \in OrchestratorTexts : OrchestratorReturns(t)
    \/ \E t \in LivePlannerTexts : PlannerReturns(t)
    \/ \E env \in ToolEnvs : ToolStep(env)
    \/ ToolsDone
    \/ SolverReturns(<<"## Summary", "\n">>)
    \/ PersistReturns("none")

LiveNext ==
    \/ Submit(<<"parser.go">>, TRUE)
    \/ Returns

LiveSpec == Init /\ [][LiveNext]_vars /\ WF_vars(Returns)

-----------------------------------------------------------------------------
(* The tool pass on its own: executePlanTools run on a session whose plan   *)
(* the planner has just returned, for plans and workspaces of every shape.  *)

\* Plan texts: ids out of numeric order, a line that is no step, references
\* backward, forward, to the step itself and to a step that recorded an error,
\* a tool name in capitals, a definition broken over lines, text after the
\* closing bracket, an id defined twice.
PassPlans ==
    {<<"#", "E", "2", " ", "=", " ", "READFILE", "[", "a.go", "]", "\n",
       "Plan", ":", " ", "look", "\n",
       "#", "E", "1", " ", "=", " ", "ReadFile", "[", " ", "#", "E", "2", " ",
           "#", "E", "1", " ", "#", "E", "3", " ", "]", "\n",
       "#", "E", "3", " ", "=", " ", "DeleteFile", "[", "#", "E", "2", "]", " ", "\n",
       "#", "E", "4", "=", "ListFiles", "[", "#", "E", "3", "#", "E", "1", "]">>,
     <<"#", "E", "1", "\n", "=", "\n", "ListFiles", "[", ".", "]", "\n",
       "#", "E", "2", " ", "=", " ", "ReadFile", "[", "x", "]", " ", "y", "\n",
       "#", "E", "7", " ", "=", " ", "SearchText", "[", "TODO", " ", "|", " ",
           "#", "E", "1", "]", "\n",
       "#", "E", "1", " ", "=", " ", "ReadFile", "[", "#", "E", "1", "]", "\n">>,
     <<"#", "E", "1", " ", "=", " ", "ReadFile", "[", "a", "]", "\n",
       "#", "E", "1", " ", "=", " ", "ListFiles", "[", "b", "[", "0", "]", "]", ".", "c", "]",
           " ", " ", "\n",
       "#", "E", "1", " ", "=", " ", "DeleteFile", "[", "x", "]", "\n",
       "#", "E", "2", " ", "=", " ", "ReadFile", "[", "#", "E", "1", "]">>,
     <<"no", " ", "steps">>}

\* What the workspace answers to one tool call: a text, a text that reads like
\* a reference, nothing, a failure of the file system, a directory, no
\* workspace root, and a path resolver that throws.
PassEnvs ==
    {[resolver |-> "ok", fs |-> "ok", content |-> <<"package parser">>, message |-> <<>>],
     [resolver |-> "ok", fs |-> "ok", content |-> <<"see", " ", "#", "E", "2">>,
      message |-> <<>>],
     [resolver |-> "ok", fs |-> "ok", content |-> <<>>, message |-> <<>>],
     [resolver |-> "ok", fs |-> "error", content |-> <<>>, message |-> <<"ENOENT">>],
     [resolver |-> "ok", fs |-> "directory", content |-> <<>>, message |-> <<>>],
     [resolver |-> "none", fs |-> "ok", content |-> <<>>, message |-> <<>>],
     [resolver |-> "throws", fs |-> "ok", content |-> <<>>, message |-> <<"resolver failed">>],
     [resolver |-> "throws", fs |-> "ok", content |-> <<>>, message |-> <<>>]}

\* planModeChat has resolved a new session, the orchestrator has let planning
\* start and the planner has returned `plan`.
PassInit ==
    /\ registersOnStart \in BOOLEAN
    /\ \E plan \in PassPlans :
          LET none == [heap |-> <<>>, planSession |-> 0, session |-> 0,
                       updates |-> <<>>, used |-> {}]
              st == startExecuting(startPlanning(beginAdvance(none, <<"add tests">>)),
                                   runModel(plan))
          IN  /\ sessions = st.heap
              /\ planSession = st.planSession
              /\ session = st.session
              /\ updates = st.updates
    /\ pc = "tools"
    /\ question = <<"add tests">>
    /\ callStart = 0
    /\ submissions = 1
    /\ executions = <<>>
    /\ variables = <<>>
    /\ lastIndex = 1
    /\ sent = <<>>
    /\ outcome = "running"
    /\ call = NoCall
    /\ NoScan

PassNext ==
    \/ \E env \in PassEnvs : ToolStep(env)
    \/ ToolsDone

PassSpec == PassInit /\ [][PassNext]_vars

-----------------------------------------------------------------------------
(* Properties *)

\* The six transitions of the session state machine.
Transitions ==
    {<<"orchestrating", "awaiting_clarifications">>,
     <<"orchestrating", "planning">>,
     <<"awaiting_clarifications", "orchestrating">>,
     <<"planning", "executing_tools">>,
     <<"executing_tools", "solving">>,
     <<"solving", "completed">>}

\* Position of a status in the order
\* orchestrating/awaiting_clarifications < planning < executing_tools < solving < completed.
Rank(status) ==
    CASE status \in {"orchestrating", "awaiting_clarifications"} -> 0
      [] status = "planning" -> 1
      [] status = "executing_tools" -> 2
      [] status = "solving" -> 3
      [] status = "completed" -> 4

\* The statuses published for session s, in the order they were published.
PublishedStatuses(log, s) ==
    LET own == SelectSeq(log, LAMBDA u : u.id = s)
    IN  [i \in 1 .. Len(own) |-> own[i].status]

\* The step is a planModeChat call arriving.
Submitted == submissions' = submissions + 1

\* The session provider.planSession refers to, when there is one.
HasCurrent == planSession # 0 /\ planSession \in DOMAIN sessions

\* The stages that follow the orchestrator.
LaterStages == {"planner", "tools", "solver", "persist"}

\* C1: in every reachable state, a session's pendingClarification is set if and
\* only if its status is awaiting_clarifications.
C1_PendingIffAwaiting ==
    \A s \in DOMAIN sessions :
        (sessions[s].pendingClarification # Undefined)
            <=> (sessions[s].status = "awaiting_clarifications")

\* C1 witness: a second question is pending after an earlier one was answered.
C1_Witness ==
    /\ pc = "idle"
    /\ outcome = "clarify"
    /\ session \in DOMAIN sessions
    /\ sessions[session].status = "awaiting_clarifications"
    /\ sessions[session].pendingClarification # Undefined
    /\ Len(sessions[session].clarifications) >= 1

\* C2: every change of a session's status is one of the six transitions.
C2_OnlySixTransitions ==
    [][\A s \in DOMAIN sessions \cap DOMAIN sessions' :
           sessions'[s].status # sessions[s].status
               => <<sessions[s].status, sessions'[s].status>> \in Transitions]_vars

\* C2 witness: a session that went through all six transitions.
C2_Witness ==
    \E s \in DOMAIN sessions :
        /\ sessions[s].status = "completed"
        /\ Len(sessions[s].clarifications) >= 1
        /\ sessions[s].toolExecutions # <<>>

\* C3: a submission for a session in awaiting_clarifications: the first update
\* the call publishes shows status orchestrating, no pending question, and the
\* clarifications extended by the pair (pending question, trimmed submitted text).
C3_AnswerConsumed ==
    [][(Submitted /\ HasCurrent
            /\ sessions[planSession].status = "awaiting_clarifications")
       => /\ Len(updates') > callStart'
          /\ LET before == sessions[planSession]
                 first == updates'[callStart' + 1]
             IN  /\ first.id = before.id
                 /\ first.status = "orchestrating"
                 /\ first.pendingClarification = Undefined
                 /\ Len(first.clarifications) = Len(before.clarifications) + 1
                 /\ SubSeq(first.clarifications, 1, Len(before.clarifications))
                        = before.clarifications
                 /\ first.clarifications[Len(first.clarifications)]
                        = [question |-> before.pendingClarification,
                           answer |-> trimEnd(trimStart(question'))]]_vars

\* C3 witness: the call just consumed an answer that needed trimming.
C3_Witness ==
    /\ pc = "orchestrator"
    /\ Len(updates) > callStart
    /\ updates[callStart + 1].status = "orchestrating"
    /\ Len(updates[callStart + 1].clarifications) = 1
    /\ updates[callStart + 1].clarifications[1].question = <<"Which file?">>
    /\ updates[callStart + 1].clarifications[1].answer = <<"add tests">>
    /\ question = <<" ", "add tests", "\n">>

\* C4 as stated: whenever the parsed decision has action clarify, whatever its
\* question, the session moves to awaiting_clarifications with that question pending.
C4_ClarifyAlwaysPauses ==
    [][\A t \in OrchestratorTexts :
           (OrchestratorReturns(t)
                /\ parseOrchestratorDecision(runModel(t)).action = "clarify")
           => /\ sessions[session].status = "orchestrating"
              /\ sessions'[session].status = "awaiting_clarifications"
              /\ sessions'[session].pendingClarification
                     = parseOrchestratorDecision(runModel(t)).question]_vars

\* C4 amended: when the parsed decision has action clarify and a question that
\* is not empty, the session moves from orchestrating to awaiting_clarifications
\* with that question pending.
C4_ClarifyWithQuestionPauses ==
    [][\A t \in OrchestratorTexts :
           (OrchestratorReturns(t)
                /\ parseOrchestratorDecision(runModel(t)).action = "clarify"
                /\ parseOrchestratorDecision(runModel(t)).question # <<>>)
           => /\ sessions[session].status = "orchestrating"
              /\ sessions'[session].status = "awaiting_clarifications"
              /\ sessions'[session].pendingClarification
                     = parseOrchestratorDecision(runModel(t)).question]_vars

\* C4 witness: the orchestrator's question, trimmed, is pending.
C4_Witness ==
    /\ outcome = "clarify"
    /\ session \in DOMAIN sessions
    /\ sessions[session].pendingClarification = <<"Which file?">>
    /\ Len(updates) > callStart + 1
    /\ updates[Len(updates) - 1].id = session
    /\ updates[Len(updates) - 1].status = "orchestrating"

\* C5: while a session awaits a clarification, the only thing that happens to
\* it is that a submission is consumed as the answer; no planner call, tool
\* execution or solver call runs for a session whose pendingClarification is set.
C5_NoPlanningWhilePending ==
    [][/\ \A s \in DOMAIN sessions \cap DOMAIN sessions' :
              (sessions[s].status = "awaiting_clarifications"
                   \/ sessions[s].pendingClarification # Undefined)
              => /\ ~(pc' \in LaterStages /\ session' = s)
                 /\ sessions'[s].planMarkdown = sessions[s].planMarkdown
                 /\ sessions'[s].toolExecutions = sessions[s].toolExecutions
                 /\ sessions'[s].solverSummary = sessions[s].solverSummary
                 /\ sessions'[s] # sessions[s]
                        => Len(sessions'[s].clarifications)
                               = Len(sessions[s].clarifications) + 1
       /\ pc' \in LaterStages
              => /\ sessions'[session'].pendingClarification = Undefined
                 /\ sessions'[session'].status # "awaiting_clarifications"]_vars

\* C5 witness: the planner runs for a session whose question has been answered.
C5_Witness ==
    /\ pc = "planner"
    /\ Len(sessions[session].clarifications) >= 1
    /\ sessions[session].pendingClarification = Undefined

\* C6: a submission while the current session is orchestrating advances the same
\* session: no session is created, taskHistory grows by the trimmed submitted
\* text and clarifications stay as they were.
C6_OrchestratingResumes ==
    [][(Submitted /\ HasCurrent /\ sessions[planSession].status = "orchestrating")
       => /\ session' = planSession
          /\ planSession' = planSession
          /\ DOMAIN sessions' = {planSession}
          /\ sessions'[planSession].id = sessions[planSession].id
          /\ sessions'[planSession].taskHistory
                 = Append(sessions[planSession].taskHistory, trimEnd(trimStart(question')))
          /\ sessions'[planSession].clarifications
                 = sessions[planSession].clarifications]_vars

\* C6 witness: a second call resumed the session an orchestrator abort or
\* failure left behind, with a text that needed trimming.
C6_Witness ==
    /\ pc = "orchestrator"
    /\ callStart >= 1
    /\ updates[callStart].id = session
    /\ updates[callStart].status = "orchestrating"
    /\ question = <<" ", "add tests", "\n">>
    /\ sessions[session].taskHistory
           = Append(updates[callStart].taskHistory, <<"add tests">>)

\* C7: a submission while the current session is planning, executing_tools or
\* solving starts a new session, and nothing of the old session changes during
\* that call.
C7_LaterStageStartsNew ==
    [][/\ (Submitted /\ HasCurrent
               /\ sessions[planSession].status
                      \in {"planning", "executing_tools", "solving"})
          => /\ session' \notin DOMAIN sessions
             /\ session' \in DOMAIN sessions'
             /\ sessions'[session'].status = "orchestrating"
             /\ sessions'[session'].taskHistory = <<trimEnd(trimStart(question'))>>
             /\ sessions'[session'].clarifications = <<>>
             /\ planSession \in DOMAIN sessions'
             /\ sessions'[planSession] = sessions[planSession]
       /\ \A s \in DOMAIN sessions \cap DOMAIN sessions' :
              (sessions[s].status \in {"planning", "executing_tools", "solving"}
                   /\ s # session')
              => sessions'[s] = sessions[s]]_vars

\* C7 witness: a call works on a new session while the one it replaced is still
\* in planning or solving.
C7_Witness ==
    /\ pc \in {"orchestrator", "planner", "tools"}
    /\ \E old \in DOMAIN sessions \ {session} :
           sessions[old].status \in {"planning", "solving"}

\* C8: once a session is completed none of its fields changes again; the next
\* submission creates a new session and the call changes that session only.
C8_CompletedIsTerminal ==
    [][/\ \A s \in DOMAIN sessions \cap DOMAIN sessions' :
              sessions[s].status = "completed" => sessions'[s] = sessions[s]
       /\ (Submitted /\ HasCurrent /\ sessions[planSession].status = "completed")
          => /\ session' \notin DOMAIN sessions
             /\ session' \in DOMAIN sessions'
             /\ planSession \in DOMAIN sessions'
       /\ \A s \in DOMAIN sessions \cap DOMAIN sessions' :
              s # session' => sessions'[s] = sessions[s]]_vars

\* C8 witness: a new session is being planned while the completed one is kept.
C8_Witness ==
    /\ pc = "planner"
    /\ \E old \in DOMAIN sessions \ {session} :
           /\ sessions[old].status = "completed"
           /\ sessions[old].solverSummary # Undefined

\* C9: in the updates published for one session, once a status from planning
\* on has been shown, no later update shows an earlier status.
C9_NoRegression ==
    \A i \in 1 .. Len(updates) : \A j \in i + 1 .. Len(updates) :
        (updates[i].id = updates[j].id /\ Rank(updates[i].status) >= 1)
            => Rank(updates[j].status) >= Rank(updates[i].status)

\* C9 witness: a session's updates run from a clarification to completed.
C9_Witness ==
    \E i \in 1 .. Len(updates) : \E j \in i + 1 .. Len(updates) :
        /\ updates[i].id = updates[j].id
        /\ updates[i].status = "awaiting_clarifications"
        /\ updates[j].status = "completed"

\* C10: the status of every session is the one last published for it, the
\* first status published is orchestrating, and the published statuses follow
\* the transitions one by one, in order.
C10_EveryStatusPublished ==
    \A s \in DOMAIN sessions :
        LET shown == PublishedStatuses(updates, s)
        IN  /\ shown # <<>>
            /\ shown[1] = "orchestrating"
            /\ shown[Len(shown)] = sessions[s].status
            /\ \A i \in 1 .. Len(shown) - 1 :
                   shown[i + 1] = shown[i] \/ <<shown[i], shown[i + 1]>> \in Transitions

\* C10 witness: a call that consumed an answer and ran to completed has
\* published every status on the way.
C10_Witness ==
    /\ pc = "idle"
    /\ outcome = "completed"
    /\ Len(sessions[session].clarifications) >= 1
    /\ \A st \in Statuses : \E i \in 1 .. Len(updates) :
           updates[i].id = session /\ updates[i].status = st

-----------------------------------------------------------------------------
(* The tool pass *)

\* The positions of the plan where the step pattern matches.
MatchStarts(plan) == {i \in 1 .. Len(plan) : matchAt(plan, i).found}

\* The same positions in order of appearance.
StepOrder(plan) ==
    LET S == MatchStarts(plan)
    IN  CHOOSE f \in [1 .. Cardinality(S) -> S] :
            \A a, b \in 1 .. Cardinality(S) : a < b => f[a] < f[b]

\* The snapshots of session s the observer got while it executed tools.
PassUpdates(s) ==
    SelectSeq(updates, LAMBDA u : u.id = s /\ u.status = "executing_tools")

IsPrefix(a, b) == Len(a) <= Len(b) /\ SubSeq(b, 1, Len(a)) = a

\* This step is one iteration of the loop of executePlanTools.
StepTaken == pc = "tools" /\ pc' = "tools" /\ executions' # executions

\* The match that iteration works on, and the record it appends.
CurrentMatch == exec(planOf(sessions[session]), lastIndex)
NewRecord == executions'[Len(executions')]

\* C11: during a pass the session is published once after each step; the k-th
\* of these updates carries exactly the first k records, so every published
\* list is a prefix of the next, and a plan with n steps gives n such updates
\* (followed by the one that closes the pass).
C11_OneUpdatePerStep ==
    LET U == PassUpdates(session)
        n == Cardinality(MatchStarts(planOf(sessions[session])))
    IN  /\ pc = "tools" =>
              /\ Len(U) = Len(executions) + 1
              /\ \A k \in 0 .. Len(executions) :
                     U[k + 1].toolExecutions = SubSeq(executions, 1, k)
        /\ pc = "solver" =>
              /\ Len(U) = n + 2
              /\ \A k \in 1 .. n :
                     /\ Len(U[k + 1].toolExecutions) = k
                     /\ IsPrefix(U[k].toolExecutions, U[k + 1].toolExecutions)
              /\ U[n + 2].toolExecutions = U[n + 1].toolExecutions

C11_Witness ==
    /\ pc = "solver"
    /\ Len(PassUpdates(session)) = 6
    /\ Len(sessions[session].toolExecutions) = 4

\* C12: steps run one after the other in the order the plan gives them: when
\* the tool of step i+1 starts, the records of steps 1..i are appended and
\* published, and the record it appends is the one of the (i+1)-th match.
C12_StepsInParseOrder ==
    [][StepTaken =>
         LET plan == planOf(sessions[session])
             order == StepOrder(plan)
             i == Len(executions) + 1
         IN  /\ sessions[session].toolExecutions = executions
             /\ updates[Len(updates)].toolExecutions = executions
             /\ i <= Len(order)
             /\ CurrentMatch.index = order[i]
             /\ executions' = Append(executions, NewRecord)
             /\ NewRecord.id = <<"#", "E">> \o matchAt(plan, order[i]).id]_vars

C12_Witness ==
    /\ pc = "tools"
    /\ Len(executions) = 3
    /\ executions[1].id = <<"#", "E", "2">>
    /\ executions[2].id = <<"#", "E", "1">>
    /\ executions[3].id = <<"#", "E", "3">>

\* The stages of one advance, in their order.
StageRank ==
    [idle |-> 0, orchestrator |-> 1, planner |-> 2, tools |-> 3, solver |-> 4,
     persist |-> 5]

\* C13: within one advance the stages run in the order orchestrator, planner,
\* tool pass, solver, each at most once, and a stage starts only when the
\* stream of the stage before it has been read to its end: the text it stored
\* is the whole streamed text.
C13_StagesInFixedOrder ==
    [][pc' # pc =>
         /\ pc' = "idle" \/ StageRank[pc'] = StageRank[pc] + 1
         /\ pc' = "tools" =>
                sessions'[session'].planMarkdown \in {runModel(t) : t \in PlannerTexts}
         /\ pc' = "persist" =>
                sessions'[session'].solverSummary \in {runModel(t) : t \in SolverTexts}]_vars

C13_Witness ==
    /\ pc = "persist"
    /\ sessions[session].status = "solving"
    /\ Len(sessions[session].toolExecutions) = 2

\* C14: after a pass the session holds exactly one record per match of the step
\* pattern in the plan, in the order the matches appear in the text, and
\* record i carries the id and the tool name as the i-th match writes them.
C14_OneRecordPerStepLine ==
    pc = "solver" =>
        LET plan == planOf(sessions[session])
            order == StepOrder(plan)
            recs == sessions[session].toolExecutions
        IN  /\ Len(recs) = Len(order)
            /\ \A i \in DOMAIN recs :
                   /\ recs[i].id = <<"#", "E">> \o matchAt(plan, order[i]).id
                   /\ recs[i].tool = matchAt(plan, order[i]).toolNameRaw

C14_Witness ==
    /\ pc = "solver"
    /\ Len(sessions[session].toolExecutions) = 4
    /\ sessions[session].toolExecutions[1].id = <<"#", "E", "2">>
    /\ sessions[session].toolExecutions[1].tool = <<"READFILE">>
    /\ sessions[session].toolExecutions[2].id = <<"#", "E", "1">>

\* C15: a step that records an error does not end the pass: what follows it is
\* the next match of the plan, or, after the last match, the move to solving
\* with one record per match.
C15_ErrorDoesNotHaltPass ==
    [][(pc = "tools" /\ \E i \in DOMAIN executions : executions[i].error # Undefined) =>
         IF CurrentMatch.found
         THEN /\ pc' = "tools"
              /\ Len(executions') = Len(executions) + 1
              /\ NewRecord.id = <<"#", "E">> \o CurrentMatch.id
         ELSE /\ pc' = "solver"
              /\ sessions[session].status = "executing_tools"
              /\ sessions'[session].status = "solving"
              /\ Len(sessions'[session].toolExecutions)
                     = Cardinality(MatchStarts(planOf(sessions[session])))]_vars

C15_Witness ==
    /\ pc = "solver"
    /\ sessions[session].status = "solving"
    /\ Len(sessions[session].toolExecutions) = 4
    /\ sessions[session].toolExecutions[1].error # Undefined
    /\ sessions[session].toolExecutions[4].error = Undefined

\* C16: a step whose tool name is none of listfiles, readfile, searchtext
\* (letter case ignored) gets the error "Unsupported tool: <name>" with the
\* name as written and an empty output; no executor is called, and the
\* advance goes on (its session is completed in the end).
C16_UnsupportedToolRecorded ==
    [][(StepTaken /\ toLowerCase(CurrentMatch.toolNameRaw)
                         \notin {<<"listfiles">>, <<"readfile">>, <<"searchtext">>}) =>
         /\ NewRecord.error = <<"Unsupported tool: ">> \o CurrentMatch.toolNameRaw
         /\ NewRecord.output = <<>>
         /\ NewRecord.tool = CurrentMatch.toolNameRaw
         /\ \A env \in ToolEnvs : runStep(CurrentMatch, variables, env).executor = "none"
         /\ variables' = variables
         /\ outcome' = outcome]_vars

C16_Witness ==
    /\ pc = "idle"
    /\ outcome = "completed"
    /\ sessions[session].status = "completed"
    /\ \E i \in DOMAIN sessions[session].toolExecutions :
           /\ sessions[session].toolExecutions[i].error
                  = <<"Unsupported tool: ", "DeleteFile">>
           /\ sessions[session].toolExecutions[i].output = <<>>

\* What C17 calls a tool failure: the file system fails, the workspace has no
\* root, or read-file is given a directory.
ToolFailure(m, env) ==
    LET executor == runStep(m, <<>>, env).executor
    IN  /\ executor # "none"
        /\ env.resolver # "throws"
        /\ \/ env.resolver = "none"
           \/ env.fs = "error"
           \/ executor = "readFile" /\ env.fs = "directory"

\* C17 as written: such a failure is captured in the error field, with an
\* empty output.
C17_FailureIsError ==
    [][\A env \in PassEnvs :
         (ToolStep(env) /\ ToolFailure(CurrentMatch, env)) =>
             NewRecord.error # Undefined /\ NewRecord.output = <<>>]_vars

\* C17: such a failure is the text the executor returns: it is recorded as the
\* step's output, and the error field stays unset.
C17_FailureTextIsOutput ==
    [][\A env \in PassEnvs :
         (ToolStep(env) /\ ToolFailure(CurrentMatch, env)) =>
             NewRecord.error = Undefined /\ NewRecord.output # <<>>]_vars

C17_Witness ==
    /\ pc = "tools"
    /\ \E i \in DOMAIN executions :
           /\ executions[i].output = <<"ReadFile error: target is a directory.">>
           /\ executions[i].error = Undefined
    /\ \E i \in DOMAIN executions :
           /\ executions[i].output = <<"Workspace folder is not available for ListFiles.">>
           /\ executions[i].error = Undefined

\* The ids the text refers to: every "#E" followed by digits.
RefsIn(text) ==
    {SubSeq(text, i + 2, SkipIn(text, i + 2, Digits) - 1) :
        i \in {j \in 1 .. Len(text) - 2 :
                  text[j] = "#" /\ text[j + 1] = "E" /\ text[j + 2] \in Digits}}

ContainsText(text, part) ==
    \E i \in 1 .. Len(text) - Len(part) + 1 : SubSeq(text, i, i + Len(part) - 1) = part

\* Earlier records of this pass with id k that carry no error.
Produced(k) ==
    {i \in DOMAIN executions :
        executions[i].id = <<"#", "E">> \o k /\ executions[i].error = Undefined}

\* The output a reference to k stands for: the one of the latest such record.
OutputOf(k) == executions[CHOOSE i \in Produced(k) : \A o \in Produced(k) : o <= i].output

\* A text that can neither be nor complete a reference.
PlainText(t) == t # <<>> /\ \A j \in DOMAIN t : t[j] \notin {"#", "E"} \cup Digits

\* C18 as written: whatever the outputs are, no reference to a step that has
\* produced an output is left in the recorded argument.
C18_NoReferenceLeft ==
    [][StepTaken =>
         \A k \in RefsIn(CurrentMatch.rawArgument) :
             Produced(k) # {} => k \notin RefsIn(NewRecord.argument)]_vars

\* C18: every reference to a step that has produced an output is replaced by
\* that output in one pass, and the text put in is not looked at again: no such
\* reference is left when the outputs put in are non-empty and hold no "#",
\* "E" or digit.
C18_ReferenceReplaced ==
    [][StepTaken =>
         LET refs == RefsIn(CurrentMatch.rawArgument)
         IN  (\A j \in refs : Produced(j) # {} => PlainText(OutputOf(j))) =>
                 \A k \in refs : Produced(k) # {} =>
                     /\ k \notin RefsIn(NewRecord.argument)
                     /\ ContainsText(NewRecord.argument, OutputOf(k))]_vars

C18_Witness ==
    /\ pc = "tools"
    /\ Len(executions) >= 2
    /\ executions[1].output = <<"package parser">>
    /\ executions[2].argument = <<"package parser", " ", "#", "E", "1", " ", "#", "E", "3">>

\* The texts by which an executor reports that it failed.
FailureTexts ==
    {"Workspace folder is not available for ListFiles.", "ListFiles error: ",
     "Unable to resolve path for ReadFile.", "ReadFile error: ",
     "ReadFile error: target is a directory.",
     "Unable to resolve search path inside the workspace."}

\* Earlier records with id k whose tool did not fail in any way.
Succeeded(k) ==
    {i \in Produced(k) :
        executions[i].output = <<>> \/ executions[i].output[1] \notin FailureTexts}

\* C19 as written: a reference to a step that is not earlier in the pass, or
\* whose tool failed, stays as written.
C19_FailedStepStaysLiteral ==
    [][StepTaken =>
         \A k \in RefsIn(CurrentMatch.rawArgument) :
             Succeeded(k) = {} =>
                 ContainsText(NewRecord.argument, <<"#", "E">> \o k)]_vars

\* C19: a reference is replaced only when an earlier step of the pass with that
\* id recorded no error: a forward reference, a reference of a step to itself
\* and a reference to a step whose record carries an error stay as written,
\* and the table of outputs holds exactly the ids of the error-free records.
C19_ReplacedOnlyWithoutError ==
    [][StepTaken =>
         /\ \A k \in RefsIn(CurrentMatch.rawArgument) :
                Produced(k) = {} =>
                    ContainsText(NewRecord.argument, <<"#", "E">> \o k)
         /\ DOMAIN variables
                = {SubSeq(executions[i].id, 3, Len(executions[i].id)) :
                      i \in {j \in DOMAIN executions : executions[j].error = Undefined}}
         /\ \A k \in DOMAIN variables : variables[k] = OutputOf(k)]_vars

C19_Witness ==
    /\ pc = "tools"
    /\ Len(executions) = 4
    /\ executions[2].argument
           = <<"package parser", " ", "#", "E", "1", " ", "#", "E", "3">>
    /\ executions[3].error # Undefined
    /\ executions[2].error = Undefined
    /\ executions[4].argument = <<"#", "E", "3", "package parser">>

\* Every record there is: the ones of the running pass, the ones the sessions
\* hold and the ones the observer was given.
AllRecords ==
    {executions[i] : i \in DOMAIN executions}
    \cup UNION {{sessions[s].toolExecutions[i] : i \in DOMAIN sessions[s].toolExecutions} :
                   s \in DOMAIN sessions}
    \cup UNION {{updates[u].toolExecutions[i] : i \in DOMAIN updates[u].toolExecutions} :
                   u \in DOMAIN updates}

\* C20: in every record an error and a non-empty output exclude each other: a
\* record with an error has the empty output.
C20_ErrorMeansNoOutput ==
    \A r \in AllRecords : r.error # Undefined => r.output = <<>>

C20_Witness ==
    /\ \E r \in AllRecords : r.error = <<"resolver failed">> /\ r.output = <<>>
    /\ \E r \in AllRecords : r.error = Undefined /\ r.output # <<>>
    /\ \E u \in DOMAIN updates :
           \E i \in DOMAIN updates[u].toolExecutions :
               updates[u].toolExecutions[i].error = <<>>

-----------------------------------------------------------------------------
(* The ways an advance ends *)

\* The stages that call the model, and the status the session has in each.
ModelStages == {"orchestrator", "planner", "solver"}
StageStatus == [orchestrator |-> "orchestrating", planner |-> "planning", solver |-> "solving"]

\* C21: when the cancellation signal aborts the model stream of a stage, the
\* advance ends silently: nothing is sent to the user, no later stage runs,
\* nothing is published, and the session keeps the status it had when the
\* model call of that stage started.
C21_AbortIsSilent ==
    [][(pc \in ModelStages /\ outcome' = "aborted") =>
         /\ sent = <<>> /\ sent' = <<>>
         /\ pc' = "idle"
         /\ updates' = updates
         /\ sessions' = sessions /\ session' = session
         /\ sessions[session].status = StageStatus[pc]]_vars

C21_Witness ==
    /\ pc = "idle"
    /\ outcome = "aborted"
    /\ sent = <<>>
    /\ sessions[session].status = "solving"

\* C22: when a model call fails with something other than an abort, the user
\* gets exactly one failure notice, no later stage runs, and the session
\* keeps the status it had when the failing stage started.
C22_FailureSendsOneNotice ==
    [][(pc \in ModelStages /\ outcome' = "failed") =>
         /\ sent = <<>> /\ sent' = <<ErrorNotice>>
         /\ pc' = "idle"
         /\ updates' = updates
         /\ sessions' = sessions /\ session' = session
         /\ sessions[session].status = StageStatus[pc]]_vars

C22_Witness ==
    /\ pc = "idle"
    /\ outcome = "failed"
    /\ sent = <<ErrorNotice>>
    /\ sessions[session].status = "planning"

InMemoryNote == <<"Plan saved in memory (workspace folder not detected).">>

\* C23 as written: whatever the persist call does, fail or give no storage
\* location, the session leaves the persist step completed, the completed
\* snapshot is published and the completion message is delivered, with the
\* in-memory note when there is no storage location.
C23_PersistFailureNonFatal ==
    [][(pc = "persist" /\ pc' # "persist") =>
         /\ sessions'[session].status = "completed"
         /\ updates'[Len(updates')].status = "completed"
         /\ Len(sent') = 1 /\ sent'[1].type = "response"
         /\ ~Truthy(sessions'[session].planFilePath) =>
                ContainsText(sent'[1].value, InMemoryNote)]_vars

\* The persist call failed: the session is left in solving with a failure notice.
C23_Witness ==
    /\ pc = "idle"
    /\ outcome = "failed"
    /\ sessions[session].status = "solving"
    /\ sessions[session].solverSummary # Undefined
    /\ sent = <<ErrorNotice>>

\* C25: when every model, tool and persist call returns, every advance ends,
\* and it ends with the session awaiting clarifications or completed, whatever
\* the orchestrator and the planner stream.
C25_AdvanceEnds ==
    (pc # "idle") ~>
        (/\ pc = "idle"
         /\ HasCurrent
         /\ sessions[session].status \in {"awaiting_clarifications", "completed"})

C25_Witness ==
    /\ pc = "idle"
    /\ outcome = "completed"
    /\ sessions[session].status = "completed"
    /\ sessions[session].planMarkdown = <<>>
    /\ sessions[session].toolExecutions = <<>>

\* C26: a completed session has the summary the solver stage stored, and it
\* became completed in the step in which the persist call returned, a call
\* that was made once the summary was stored.
C26_CompletedAfterSummaryAndPersist ==
    /\ [][\A s \in DOMAIN sessions' :
              (sessions'[s].status = "completed"
                   /\ (s \notin DOMAIN sessions \/ sessions[s].status # "completed")) =>
                  /\ s \in DOMAIN sessions /\ s = session
                  /\ pc = "persist" /\ pc' = "idle"
                  /\ sessions[s].status = "solving"
                  /\ sessions[s].solverSummary # Undefined
                  /\ sessions'[s].solverSummary = sessions[s].solverSummary]_vars
    /\ [][pc' = "persist" =>
              /\ pc = "solver"
              /\ sessions[session].solverSummary = Undefined
              /\ sessions'[session].solverSummary \in {runModel(t) : t \in SolverTexts}]_vars
    /\ [](\A s \in DOMAIN sessions :
              sessions[s].status = "completed" =>
                  sessions[s].solverSummary \in {runModel(t) : t \in SolverTexts})

C26_Witness ==
    /\ HasCurrent
    /\ sessions[session].status = "completed"
    /\ sessions[session].solverSummary = <<"## Summary">>
    /\ sessions[session].planFilePath = <<"plan.md">>

\* C30: no failure inside an executor leaves the pass: whatever the resolver
\* and the file system answer, the step ends as a record that holds a result
\* text or an error, nothing is sent to the user, the call goes on, and the
\* next step (or the end of the pass) can follow.
C30_FailuresStayInRecords ==
    [][pc = "tools" =>
         /\ pc' \in {"tools", "solver"}
         /\ outcome' = outcome /\ sent' = sent
         /\ StepTaken =>
                /\ executions' = Append(executions, NewRecord)
                /\ \/ NewRecord.error = Undefined
                   \/ NewRecord.error # Undefined /\ NewRecord.output = <<>>
                /\ \A env \in PassEnvs :
                       LET r == runStep(CurrentMatch, variables, env).execution
                       IN  r.id = NewRecord.id /\ r.tool = NewRecord.tool]_vars

C30_Witness ==
    /\ pc = "tools"
    /\ Len(executions) = 2
    /\ executions[1].error = <<"resolver failed">>
    /\ executions[2].output = <<"ReadFile error: ", "ENOENT">>

-----------------------------------------------------------------------------
(* The functions applied on their own *)

\* Raw orchestrator outputs: a document, prose or nothing, bare or wrapped in
\* a code fence or in white space.
ParseBodies ==
    {<<d>> : d \in DOMAIN JsonDocs}
        \cup {<<>>, <<"Sure, proceeding.">>, <<"{action:proceed}", " ", "and more">>}

ParseInputs ==
    {pre \o body \o post :
        pre \in {<<>>, <<" ">>, <<"<fence json>", "\n">>},
        body \in ParseBodies,
        post \in {<<>>, <<" ">>, <<"\n", "<fence>">>}}

\* A text of n one-character tokens whose content depends on the position.
Filled(n, shift) ==
    [i \in 1 .. n |-> <<"a", "b", "c", "d", "e">>[((i + shift) % 5) + 1]]

\* Lengths around the limit and around the places where the count of omitted
\* characters gains a digit.
MaxExcess == 1000

TruncateLengths ==
    {0, 1, MAX_TOOL_OUTPUT - 1, MAX_TOOL_OUTPUT, MAX_TOOL_OUTPUT + 1,
     MAX_TOOL_OUTPUT + 9, MAX_TOOL_OUTPUT + 10, MAX_TOOL_OUTPUT + 11,
     MAX_TOOL_OUTPUT + 99, MAX_TOOL_OUTPUT + 100, MAX_TOOL_OUTPUT + 101,
     MAX_TOOL_OUTPUT + MaxExcess}

TruncateInputs == {Filled(n, shift) : n \in TruncateLengths, shift \in {0, 1}}

\* SearchText arguments with no bar, one bar and several.
SplitInputs ==
    {<<>>, <<"TODO">>, <<" ", "TODO", " ">>,
     <<"TODO", "|">>, <<"TODO", "|", " ">>, <<"TODO", "|", "src">>,
     <<"TODO", " ", "|", " ", "src", " ">>, <<"|", "src">>, <<" ", "|", " ">>,
     <<"TODO", "|", "src", "|", "lib">>,
     <<"TODO", " ", "|", " ", "src", " ", "|", " ", "lib">>,
     <<"TODO", "|", "|", "lib">>, <<"TODO", "|", "src", "|">>, <<"|", "|">>,
     <<"a", "|", "b", "|", "c", "|", "d">>}

ParseCall(raw) ==
    /\ call.op = "none"
    /\ call' = [op |-> "parseOrchestratorDecision", input |-> raw,
                result |-> parseOrchestratorDecision(raw)]
    /\ UNCHANGED <<planVars, scanVars>>

TruncateCall(value) ==
    /\ call.op = "none"
    /\ call' = [op |-> "truncateOutput", input |-> value,
                result |-> truncateOutput(value)]
    /\ UNCHANGED <<planVars, scanVars>>

SplitCall(argument) ==
    /\ call.op = "none"
    /\ call' = [op |-> "splitArgument", input |-> argument,
                result |-> splitArgument(argument)]
    /\ UNCHANGED <<planVars, scanVars>>

CallInit ==
    /\ Init
    /\ registersOnStart

CallNext ==
    \/ \E raw \in ParseInputs : ParseCall(raw)
    \/ \E value \in TruncateInputs : TruncateCall(value)
    \/ \E argument \in SplitInputs : SplitCall(argument)

CallSpec == CallInit /\ [][CallNext]_vars

-----------------------------------------------------------------------------
(* Properties of the functions applied on their own *)

\* What JSON.parse makes of the cleaned text, when it makes anything.
Decodes(cleaned) == ~JsonThrows(cleaned)

Decoded(cleaned) == JsonDocs[cleaned[1]]

ClarifyDocument(cleaned) ==
    /\ Decodes(cleaned)
    /\ Decoded(cleaned).action = "clarify"
    /\ Decoded(cleaned).question # Undefined

ProceedDocument(cleaned) ==
    /\ Decodes(cleaned)
    /\ Decoded(cleaned).action = "proceed"

\* C24: parseOrchestratorDecision returns a decision for every raw output; the
\* decision is clarify only when the fence-stripped text decodes to an object
\* with action "clarify" and a string question, and whenever the text is
\* neither that nor an object with action "proceed" the decision is proceed
\* with the cleaned text as its summary.
C24_DecisionIsTotal ==
    call.op = "parseOrchestratorDecision" =>
        LET cleaned == sanitizeJson(call.input)
        IN  /\ call.result.action \in {"clarify", "proceed"}
            /\ call.result.action = "clarify" => ClarifyDocument(cleaned)
            /\ ClarifyDocument(cleaned) => call.result.action = "clarify"
            /\ (~ClarifyDocument(cleaned) /\ ~ProceedDocument(cleaned)) =>
                   /\ call.result.action = "proceed"
                   /\ call.result.summary = cleaned

\* A fenced text that does not decode came back as proceed with the cleaned
\* text, which differs from the raw one.
C24_Witness ==
    /\ call.op = "parseOrchestratorDecision"
    /\ \E i \in DOMAIN call.input : call.input[i] = "<fence json>"
    /\ JsonThrows(sanitizeJson(call.input))
    /\ call.result.action = "proceed"
    /\ call.result.summary = sanitizeJson(call.input)
    /\ call.result.summary # <<>>
    /\ call.result.summary # call.input

\* The truncation notice for a given number of omitted characters.
Notice(omitted) == <<"\n", NoticeHead>> \o Decimal(omitted) \o <<NoticeTail>>

\* C27: an input of more than 2000 characters comes back as its first 2000
\* characters followed by the truncation notice, which names the number of
\* omitted characters, so the length is 2000 plus the 28 fixed characters of
\* the notice plus the decimal digits of that number; an input of at most 2000
\* characters comes back unchanged.
C27_TruncationLaw ==
    call.op = "truncateOutput" =>
        LET value == call.input
            output == call.result
            omitted == Len(value) - MAX_TOOL_OUTPUT
        IN  IF Len(value) <= MAX_TOOL_OUTPUT
            THEN output = value
            ELSE /\ SubSeq(output, 1, MAX_TOOL_OUTPUT) = SubSeq(value, 1, MAX_TOOL_OUTPUT)
                 /\ SubSeq(output, MAX_TOOL_OUTPUT + 1, Len(output)) = Notice(omitted)
                 /\ CharLength(output)
                        = MAX_TOOL_OUTPUT + 1 + NoticeHeadLength
                            + Len(Decimal(omitted)) + NoticeTailLength

\* An input ten characters over the limit was cut: its notice is one character
\* longer than the notice of an input one character over the limit.
C27_Witness ==
    /\ call.op = "truncateOutput"
    /\ Len(call.input) = MAX_TOOL_OUTPUT + 10
    /\ CharLength(call.result) = CharLength(truncateOutput(Filled(MAX_TOOL_OUTPUT + 1, 0))) + 1
    /\ SubSeq(call.result, 1, MAX_TOOL_OUTPUT) = SubSeq(call.input, 1, MAX_TOOL_OUTPUT)

\* C27 as stated: every input of more than 2000 characters comes back with the
\* same length, 2000 plus one suffix length.  The input of 2001 characters
\* fixes what that suffix length would have to be.
C27_FixedSuffixLength ==
    (call.op = "truncateOutput" /\ Len(call.input) > MAX_TOOL_OUTPUT) =>
        CharLength(call.result) = MAX_TOOL_OUTPUT + CharLength(Notice(1))

\* Position of the first bar of a SearchText argument (one past the end when
\* there is none).
FirstBar(argument) == SkipNotIn(argument, 1, {"|"})

\* C29: the pattern of a search-text argument is the trimmed text before the
\* first bar and the path is the whole trimmed text after the first bar,
\* further bars included; with no bar or an empty path part the path is the
\* workspace root.
C29_SplitsOnFirstBarOnly ==
    call.op = "splitArgument" =>
        LET argument == call.input
            bar == FirstBar(argument)
            rest == trim(SubSeq(argument, bar + 1, Len(argument)))
        IN  /\ call.result.pattern = trim(SubSeq(argument, 1, bar - 1))
            /\ call.result.path = IF bar > Len(argument) \/ rest = <<>>
                                  THEN <<".">>
                                  ELSE rest

\* An argument with two bars was split.
C29_Witness ==
    /\ call.op = "splitArgument"
    /\ Cardinality({i \in DOMAIN call.input : call.input[i] = "|"}) = 2
    /\ call.result.pattern = <<"TODO">>
    /\ call.result.path = <<"src">>

-----------------------------------------------------------------------------
(* One run of searchText *)

maxFiles == 120

maxResults == 40

\* The per-file size ceiling, stat.size > 200_000.
maxFileSize == 200000

skipDirectories == {".git", "node_modules", ".turbo", ".next", "dist", "build"}

\* Number of files in the flat tree: more than maxFiles.
WideFiles == 125

\* Number of matching lines of a file that matches: fewer than maxResults, and
\* more.
FewMatches == 25

ManyMatches == 50

Directory(names) == [kind |-> "dir", entries |-> names, matches |-> 0]

\* A file and the number of its lines that match the pattern.
RegularFile(matching) == [kind |-> "file", entries |-> <<>>, matches |-> matching]

\* The trees searched.  A path is the sequence of names that leads to it from
\* the workspace root; what is not a directory here is a file.
\*   wide:   WideFiles files in the root; the first holds a few matching lines,
\*           those from the maxFiles-th on hold many, the others none
\*   nested: directories to skip next to directories and files to scan
\*   file:   the resolved path is a file
TreeShapes == {"wide", "nested", "file"}

WideNames == [i \in 1 .. WideFiles |-> ToString(i)]

Node(shape, path) ==
    CASE shape = "wide" ->
            IF path = <<>> THEN Directory(WideNames)
            ELSE IF path = <<WideNames[1]>> THEN RegularFile(FewMatches)
            ELSE IF \E i \in maxFiles .. WideFiles : path = <<WideNames[i]>>
            THEN RegularFile(ManyMatches)
            ELSE RegularFile(0)
      [] shape = "nested" ->
            IF path = <<>>
            THEN Directory(<<".git", "node_modules", "src", "a.ts", "dist">>)
            ELSE IF path = <<"src">>
            THEN Directory(<<"b.ts", "build", "lib", ".next">>)
            ELSE IF path = <<"src", "lib">>
            THEN Directory(<<"c.ts", ".turbo">>)
            ELSE IF path = <<"a.ts">> THEN RegularFile(FewMatches)
            ELSE IF path = <<"src", "b.ts">> THEN RegularFile(ManyMatches)
            ELSE RegularFile(0)
      [] OTHER -> RegularFile(FewMatches)

\* provider.resolveWorkspacePath(rawPath || ".")
ResolvedPath(shape) == IF shape = "file" THEN <<"parser.go">> ELSE <<>>

\* What the file system answers for one path: whether fs.stat succeeds and what
\* it finds, whether fs.readdir or fs.readFile succeeds, and the size of a
\* file.
FsAnswers ==
    [stat : {"fails", "other"}, io : {"ok"}, size : {maxFileSize}]
        \cup [stat : {"ok"}, io : {"fails"}, size : {maxFileSize}]
        \cup [stat : {"ok"}, io : {"ok"}, size : {maxFileSize, maxFileSize + 1}]

\* The lines pushed for one file: every second line of the content matches;
\* the loop over the lines stops when results holds maxResults lines.
MatchedLines(current, matching, held) ==
    LET room == maxResults - held
        taken == IF matching < room THEN matching ELSE room
    IN  [j \in 1 .. taken |->
            [file |-> current, index |-> 2 * j, long |-> matching = ManyMatches]]

\* `${relative}:${index + 1}: ${line.trim()}`
RECURSIVE JoinPath(_)
JoinPath(path) ==
    IF Len(path) <= 1 THEN path
    ELSE <<Head(path), "/">> \o JoinPath(Tail(path))

ResultLine(r) ==
    JoinPath(r.file) \o <<":">> \o Decimal(r.index) \o <<":", " ">>
        \o (IF r.long THEN Filled(60, 0) ELSE <<"TODO">>)

\* results.join("\n")
RECURSIVE JoinLines(_)
JoinLines(lines) ==
    IF lines = <<>> THEN <<>>
    ELSE IF Len(lines) = 1 THEN ResultLine(lines[1])
    ELSE ResultLine(Head(lines)) \o <<"\n">> \o JoinLines(Tail(lines))

SearchArguments == {<<>>, <<"TODO">>, <<"TODO", "|", "src">>}

\* searchText up to its loop: the argument is split, the path resolved and the
\* locals set up; an empty pattern or an unresolved path returns at once.
StartSearch(argument, shape) ==
    /\ call.op = "none"
    /\ IF splitArgument(argument).pattern = <<>>
       THEN /\ call' = [op |-> "searchText", input |-> argument,
                        result |-> <<"SearchText requires a pattern argument.">>]
            /\ UNCHANGED scanVars
       ELSE IF shape = "unresolved"
       THEN /\ call' = [op |-> "searchText", input |-> argument,
                        result |-> <<"Unable to resolve search path inside the workspace.">>]
            /\ UNCHANGED scanVars
       ELSE /\ call' = [op |-> "searchText", input |-> argument, result |-> Undefined]
            /\ tree' = shape
            /\ queue' = <<ResolvedPath(shape)>>
            /\ visited' = {}
            /\ scannedFiles' = 0
            /\ results' = <<>>
            /\ reads' = 0
            /\ largestRead' = 0
    /\ UNCHANGED planVars

\* ScanStep whose loop goes on after maxFiles files were scanned.
ScanStep_NoFileLimit(answer) ==
    /\ call.op = "searchText"
    /\ call.result = Undefined
    /\ queue # <<>>
    /\ Len(results) < maxResults
    /\ LET current == Head(queue)
           node == Node(tree, current)
           kept == SelectSeq(node.entries, LAMBDA entry : entry \notin skipDirectories)
       IN  /\ visited' = visited \cup {current}
           /\ IF current \in visited \/ answer.stat # "ok"
              THEN /\ queue' = Tail(queue)
                   /\ UNCHANGED <<scannedFiles, results, reads, largestRead>>
              ELSE IF node.kind = "dir"
              THEN /\ queue' = IF answer.io = "fails" THEN Tail(queue)
                               ELSE Tail(queue)
                                    \o [i \in 1 .. Len(kept) |-> Append(current, kept[i])]
                   /\ UNCHANGED <<scannedFiles, results, reads, largestRead>>
              ELSE IF answer.size > maxFileSize
              THEN /\ queue' = Tail(queue)
                   /\ UNCHANGED <<scannedFiles, results, reads, largestRead>>
              ELSE /\ queue' = Tail(queue)
                   /\ scannedFiles' = scannedFiles + 1
                   /\ reads' = reads + 1
                   /\ largestRead' = IF answer.size > largestRead THEN answer.size
                                     ELSE largestRead
                   /\ results' = IF answer.io = "fails" THEN results
                                 ELSE results \o MatchedLines(current, node.matches, Len(results))
    /\ UNCHANGED <<planVars, call, tree>>

\* ScanStep that queues every entry of a directory.
ScanStep_EnqueuesSkipped(answer) ==
    /\ call.op = "searchText"
    /\ call.result = Undefined
    /\ queue # <<>>
    /\ scannedFiles < maxFiles
    /\ Len(results) < maxResults
    /\ LET current == Head(queue)
           node == Node(tree, current)
           kept == node.entries
       IN  /\ visited' = visited \cup {current}
           /\ IF current \in visited \/ answer.stat # "ok"
              THEN /\ queue' = Tail(queue)
                   /\ UNCHANGED <<scannedFiles, results, reads, largestRead>>
              ELSE IF node.kind = "dir"
              THEN /\ queue' = IF answer.io = "fails" THEN Tail(queue)
                               ELSE Tail(queue)
                                    \o [i \in 1 .. Len(kept) |-> Append(current, kept[i])]
                   /\ UNCHANGED <<scannedFiles, results, reads, largestRead>>
              ELSE IF answer.size > maxFileSize
              THEN /\ queue' = Tail(queue)
                   /\ UNCHANGED <<scannedFiles, results, reads, largestRead>>
              ELSE /\ queue' = Tail(queue)
                   /\ scannedFiles' = scannedFiles + 1
                   /\ reads' = reads + 1
                   /\ largestRead' = IF answer.size > largestRead THEN answer.size
                                     ELSE largestRead
                   /\ results' = IF answer.io = "fails" THEN results
                                 ELSE results \o MatchedLines(current, node.matches, Len(results))
    /\ UNCHANGED <<planVars, call, tree>>

\* One turn of the loop of searchText: the head of the queue is taken, its
\* entries are queued if it is a directory, its lines are matched if it is a
\* file of at most maxFileSize bytes.
ScanStep(answer) ==
    /\ call.op = "searchText"
    /\ call.result = Undefined
    /\ queue # <<>>
    /\ scannedFiles < maxFiles
    /\ Len(results) < maxResults
    /\ LET current == Head(queue)
           node == Node(tree, current)
           kept == SelectSeq(node.entries, LAMBDA entry : entry \notin skipDirectories)
       IN  /\ visited' = visited \cup {current}
           /\ IF current \in visited \/ answer.stat # "ok"
              THEN /\ queue' = Tail(queue)
                   /\ UNCHANGED <<scannedFiles, results, reads, largestRead>>
              ELSE IF node.kind = "dir"
              THEN /\ queue' = IF answer.io = "fails" THEN Tail(queue)
                               ELSE Tail(queue)
                                    \o [i \in 1 .. Len(kept) |-> Append(current, kept[i])]
                   /\ UNCHANGED <<scannedFiles, results, reads, largestRead>>
              ELSE IF answer.size > maxFileSize
              THEN /\ queue' = Tail(queue)
                   /\ UNCHANGED <<scannedFiles, results, reads, largestRead>>
              ELSE /\ queue' = Tail(queue)
                   /\ scannedFiles' = scannedFiles + 1
                   /\ reads' = reads + 1
                   /\ largestRead' = IF answer.size > largestRead THEN answer.size
                                     ELSE largestRead
                   /\ results' = IF answer.io = "fails" THEN results
                                 ELSE results \o MatchedLines(current, node.matches, Len(results))
    /\ UNCHANGED <<planVars, call, tree>>

\* The loop is over: searchText returns the sentinel or the joined lines.
ScanDone ==
    /\ call.op = "searchText"
    /\ call.result = Undefined
    /\ ~(queue # <<>> /\ scannedFiles < maxFiles /\ Len(results) < maxResults)
    /\ \E joined \in {JoinLines(results)} :
           call' = [call EXCEPT !.result =
                       IF results = <<>> THEN <<"No results from SearchText.">>
                       ELSE truncateOutput(joined)]
    /\ UNCHANGED <<planVars, scanVars>>

SearchInit == CallInit

SearchNext ==
    \/ \E argument \in SearchArguments, shape \in TreeShapes \cup {"unresolved"} :
           StartSearch(argument, shape)
    \/ \E answer \in FsAnswers : ScanStep(answer)
    \/ ScanDone

SearchSpec == SearchInit /\ [][SearchNext]_vars

-----------------------------------------------------------------------------
(* Properties of one run of searchText *)

\* C28: whatever the tree holds, a searchText run holds at most 40 matched
\* lines, has read the content of at most 120 files, and has read no file of
\* more than 200,000 bytes.
C28_ScanIsBounded ==
    /\ Len(results) <= maxResults
    /\ reads <= maxFiles
    /\ largestRead <= maxFileSize

\* A run over a tree of more than 120 files ended with files left in the
\* queue, after 120 reads, one of them of a file of exactly 200,000 bytes, and
\* with 40 lines taken from files that held more.
C28_Witness ==
    /\ call.op = "searchText"
    /\ call.result # Undefined
    /\ tree = "wide"
    /\ queue # <<>>
    /\ reads = maxFiles
    /\ largestRead = maxFileSize
    /\ Len(results) = maxResults
    /\ \E i \in DOMAIN results : results[i].long

-----------------------------------------------------------------------------
(* Submissions and what they leave in the session *)

\* The step is a planModeChat call that finds no model: it ends at once.
SubmittedWithoutModel == Submitted /\ pc' = "idle"

\* C33: a submission that finds neither a reasoning model nor a chat model
\* ends as the other fatal failures do: one failure notice is sent, the call
\* returns without raising, and the session is as it was before the call.
C33_NoModelFailsLikeOthers ==
    [][SubmittedWithoutModel =>
         /\ sent' = <<ErrorNotice>>
         /\ outcome' # "threw"
         /\ planSession' = planSession
         /\ HasCurrent => sessions'[planSession] = sessions[planSession]]_vars

\* A call without a model raised after the submitted text was recorded in the
\* session and the session published, and nothing was sent to the user.
C33_Witness ==
    /\ pc = "idle"
    /\ outcome = "threw"
    /\ sent = <<>>
    /\ HasCurrent
    /\ Len(updates) > callStart
    /\ LET messages == sessions[planSession].orchestratorMessages
       IN  /\ messages # <<>>
           /\ messages[Len(messages)] = [role |-> "user", content |-> trim(question)]

\* The sessions that exist before and after the step.
Kept == DOMAIN sessions \cap DOMAIN sessions'

\* C32: taskHistory, clarifications and orchestratorMessages only ever grow at
\* their end: in every step the old value of each list is a prefix of the new
\* one, and clarifications grows only when a submission arrives, by one pair.
C32_ListsAppendOnly ==
    [][\A s \in Kept :
         /\ IsPrefix(sessions[s].taskHistory, sessions'[s].taskHistory)
         /\ IsPrefix(sessions[s].clarifications, sessions'[s].clarifications)
         /\ IsPrefix(sessions[s].orchestratorMessages, sessions'[s].orchestratorMessages)
         /\ Len(sessions'[s].clarifications) <= Len(sessions[s].clarifications) + 1
         /\ Len(sessions'[s].clarifications) > Len(sessions[s].clarifications)
                => Submitted]_vars

\* A session took a second task text after its first one.
C32_Witness ==
    /\ HasCurrent
    /\ Len(sessions[planSession].taskHistory) = 2
    /\ Len(sessions[planSession].orchestratorMessages) = 2
    /\ sessions[planSession].clarifications = <<>>

\* The step is a submission taken as the answer to the pending question.
AnswerSubmitted ==
    /\ Submitted
    /\ HasCurrent
    /\ Truthy(sessions[planSession].pendingClarification)

\* C36: a submission taken as the answer to a pending clarification goes into
\* clarifications and orchestratorMessages only: task, taskHistory and what
\* the later stages produced stay as they were.
C36_AnswerLeavesTaskAlone ==
    [][AnswerSubmitted =>
         LET old == sessions[planSession]
             new == sessions'[planSession]
             answer == trim(question')
         IN  /\ session' = planSession
             /\ planSession' = planSession
             /\ new.task = old.task
             /\ new.taskHistory = old.taskHistory
             /\ new.clarifications
                    = Append(old.clarifications,
                             [question |-> old.pendingClarification, answer |-> answer])
             /\ new.orchestratorMessages
                    = Append(old.orchestratorMessages,
                             [role |-> "user", content |-> answer])
             /\ new.planMarkdown = old.planMarkdown
             /\ new.solverSummary = old.solverSummary
             /\ new.toolExecutions = old.toolExecutions
             /\ new.planFilePath = old.planFilePath]_vars

\* An answer was taken: the task history still holds the first task only.
C36_Witness ==
    /\ HasCurrent
    /\ submissions = 2
    /\ Len(sessions[planSession].clarifications) = 1
    /\ sessions[planSession].clarifications[1].answer = trim(question)
    /\ Len(sessions[planSession].taskHistory) = 1
    /\ sessions[planSession].taskHistory[1] # trim(question)

\* Number of questions the orchestrator transcript of a session holds.
AssistantMessages(sess) ==
    Cardinality({i \in DOMAIN sess.orchestratorMessages :
                     sess.orchestratorMessages[i].role = "assistant"})

\* C37: in every state, the orchestrator transcript of a session holds one
\* assistant message per answered clarification, plus one when a question is
\* pending.
C37_QuestionsRecordedOnce ==
    \A s \in DOMAIN sessions :
        AssistantMessages(sessions[s])
            = Len(sessions[s].clarifications)
                + (IF sessions[s].pendingClarification # Undefined THEN 1 ELSE 0)

\* A second question is pending after the first was answered.
C37_Witness ==
    /\ HasCurrent
    /\ Len(sessions[planSession].clarifications) = 1
    /\ sessions[planSession].pendingClarification # Undefined
    /\ AssistantMessages(sessions[planSession]) = 2

-----------------------------------------------------------------------------
(* The two renderings of a session *)

\* Length of the longest tool output rendered: beyond MAX_TOOL_OUTPUT.
LongOutput == 2500

RenderClarifications ==
    {<<>>,
     <<[question |-> <<"Which file?">>, answer |-> <<"parser.go">>]>>,
     <<[question |-> <<"Which file?">>, answer |-> <<"parser.go">>],
       [question |-> <<"Which tests?">>, answer |-> <<>>]>>}

\* A record as executePlanTools leaves it.
Record(id, tool, argument, output, error) ==
    [id |-> <<"#", "E">> \o id, tool |-> tool, argument |-> argument,
     output |-> output, error |-> error]

\* No step; a step that succeeded; steps that failed with a message and with
\* the empty message; a long output next to a failure; a ReadFile output that
\* readFile had to truncate.
RenderExecutions ==
    {<<>>,
     <<Record(<<"1">>, <<"ReadFile">>, <<"parser.go">>, <<"package parser">>, Undefined)>>,
     <<Record(<<"1">>, <<"DeleteFile">>, <<"tmp">>, <<>>,
              <<"Unsupported tool: ", "DeleteFile">>)>>,
     <<Record(<<"1">>, <<"ListFiles">>, <<".">>, <<>>, <<>>)>>,
     <<Record(<<"2">>, <<"SearchText">>, <<"TODO">>, Filled(LongOutput, 0), Undefined),
       Record(<<"1">>, <<"ReadFile">>, <<"a.go">>, <<>>, <<"resolver failed">>)>>,
     <<Record(<<"1">>, <<"ReadFile">>, <<"big.go">>,
              truncateOutput(Filled(LongOutput, 1)), Undefined)>>}

\* The sessions rendered: what a session can hold when its advance reaches
\* the solver.
RenderSessions ==
    LET none == [heap |-> <<>>, planSession |-> 0, session |-> 0,
                 updates |-> <<>>, used |-> {}]
        fresh == startPlanSession(none, <<"add tests">>).heap[1]
    IN  {[fresh EXCEPT !.clarifications = c,
                       !.planMarkdown = p,
                       !.toolExecutions = e,
                       !.solverSummary = s,
                       !.planFilePath = f,
                       !.status = "solving"] :
            c \in RenderClarifications,
            p \in {Undefined, <<"#", "E", "1", " ", "=", " ", "ReadFile", "[", "parser.go", "]">>},
            e \in RenderExecutions,
            s \in {Undefined, <<>>, <<"## Summary">>},
            f \in {Undefined, <<"plan.md">>}}

RenderInit ==
    /\ registersOnStart = TRUE
    /\ \E sess \in RenderSessions : sessions = (1 :> sess)
    /\ planSession = 1
    /\ session = 1
    /\ updates = <<>>
    /\ pc = "solver"
    /\ question = <<"add tests">>
    /\ callStart = 0
    /\ submissions = 1
    /\ executions = <<>>
    /\ variables = <<>>
    /\ lastIndex = 1
    /\ sent = <<>>
    /\ outcome = "running"
    /\ call = NoCall
    /\ NoScan

\* RenderDocument that writes the placeholder of a missing summary back into
\* the session.
RenderDocument_WritesSummary ==
    /\ call' = [op |-> "buildPlanDocument", input |-> sessions[session],
                result |-> buildPlanDocument(sessions[session])]
    /\ sessions' = [sessions EXCEPT ![session].solverSummary =
                        IF Truthy(@) THEN @ ELSE <<"Summary pending">>]
    /\ UNCHANGED <<planSession, session, pc, question, updates, callStart, submissions,
                   executions, variables, lastIndex, sent, outcome, registersOnStart,
                   scanVars>>

\* buildPlanDocument(session) is called.
RenderDocument ==
    /\ call' = [op |-> "buildPlanDocument", input |-> sessions[session],
                result |-> buildPlanDocument(sessions[session])]
    /\ UNCHANGED <<planVars, scanVars>>

\* buildFinalResponse(session) is called.
RenderResponse ==
    /\ call' = [op |-> "buildFinalResponse", input |-> sessions[session],
                result |-> buildFinalResponse(sessions[session])]
    /\ UNCHANGED <<planVars, scanVars>>

RenderNext ==
    \/ RenderDocument
    \/ RenderResponse

RenderSpec == RenderInit /\ [][RenderNext]_vars

-----------------------------------------------------------------------------
(* Properties of the renderings *)

Rendering(c) == c.op \in {"buildPlanDocument", "buildFinalResponse"}

Shows(text, part) ==
    \E i \in DOMAIN text :
        /\ text[i] = part[1]
        /\ i + Len(part) - 1 <= Len(text)
        /\ SubSeq(text, i, i + Len(part) - 1) = part

\* The text holds `part` and ends the line or the text right after it.
ShowsLine(text, part) ==
    \E i \in DOMAIN text :
        /\ text[i] = part[1]
        /\ i + Len(part) - 1 <= Len(text)
        /\ SubSeq(text, i, i + Len(part) - 1) = part
        /\ i + Len(part) - 1 = Len(text) \/ text[i + Len(part)] \in {"\n", "\n\n### Solver Summary\n"}

\* 'id tool[argument]' as both renderings show it, up to the end of its line.
StepHeader(e) ==
    <<"- ">> \o e.id \o <<" ">> \o e.tool \o <<"[">> \o e.argument \o <<"]", "\n">>

\* What follows the header of a record in the plan document and in the
\* completion message when its error is shown, and when its output is.
DocumentError(e) == StepHeader(e) \o <<"  - ERROR: ">> \o e.error

DocumentOutput(e) == StepHeader(e) \o <<"  - ">> \o e.output

ResponseError(e) == StepHeader(e) \o <<"  ", "ERROR: ">> \o e.error

ResponseOutput(e) == StepHeader(e) \o <<"  ">> \o truncateOutput(e.output)

RenderedRecords == {call.input.toolExecutions[i] : i \in DOMAIN call.input.toolExecutions}

-----------------------------------------------------------------------------
(* Truncating what was truncated *)

\* truncateOutput is applied to the text it returned, as
\* formatToolObservationsForResponse does with an output that readFile or
\* searchText has truncated.
TruncateAgain ==
    /\ call.op = "truncateOutput"
    /\ call.result # call.input
    /\ call' = [op |-> "truncateOutput", input |-> call.result,
                result |-> truncateOutput(call.result)]
    /\ UNCHANGED <<planVars, scanVars>>

AgainNext ==
    \/ CallNext
    \/ TruncateAgain

AgainSpec == CallInit /\ [][AgainNext]_vars

\* The step applies truncateOutput to its own result.
TruncatedAgain ==
    /\ call.op = "truncateOutput"
    /\ call'.op = "truncateOutput"
    /\ call'.input = call.result

\* C38: truncateOutput applied to a text it returned gives that text back, so
\* a truncated output keeps its truncation notice in the completion message.
C38_TruncationIdempotent ==
    [][TruncatedAgain => call'.result = call'.input]_vars

\* A truncated text was truncated again: its notice, which named the number of
\* characters omitted, gave way to one that counts the characters of the
\* first notice.
C38_Witness ==
    /\ call.op = "truncateOutput"
    /\ \E value \in TruncateInputs :
           /\ Len(value) = MAX_TOOL_OUTPUT + MaxExcess
           /\ call.input = truncateOutput(value)
           /\ SubSeq(call.input, MAX_TOOL_OUTPUT + 1, Len(call.input)) = Notice(MaxExcess)
    /\ call.result # call.input
    /\ SubSeq(call.result, 1, MAX_TOOL_OUTPUT) = SubSeq(call.input, 1, MAX_TOOL_OUTPUT)
    /\ SubSeq(call.result, MAX_TOOL_OUTPUT + 1, Len(call.result))
           = Notice(CharLength(Notice(MaxExcess)))

-----------------------------------------------------------------------------
(* The shape of a step definition *)

\* Where the step that is executed opens and closes its argument: the first
\* opening bracket from the start of the definition on, the end of that line,
\* and the last closing bracket of that line.
OpenBracket(plan, m) == SkipNotIn(plan, m.index, {"["})

BracketLineEnd(plan, m) == SkipNotIn(plan, OpenBracket(plan, m), {"\n"})

CloseBracket(plan, m) ==
    LET closing == {k \in OpenBracket(plan, m) .. BracketLineEnd(plan, m) - 1 : plan[k] = "]"}
    IN  CHOOSE k \in closing : \A o \in closing : o <= k

\* What holds of every step definition that is executed: it starts a line,
\* the tool name stands right before the first opening bracket, the argument
\* is the text from there to the last closing bracket of that line, and only
\* white space follows on that line.
StepShape(plan, m, record) ==
    /\ m.index = 1 \/ plan[m.index - 1] = "\n"
    /\ <<plan[m.index], plan[m.index + 1]>> = <<"#", "E">>
    /\ record.tool = SubSeq(plan, OpenBracket(plan, m) - Len(record.tool),
                            OpenBracket(plan, m) - 1)
    /\ m.rawArgument = SubSeq(plan, OpenBracket(plan, m) + 1, CloseBracket(plan, m) - 1)
    /\ \A j \in CloseBracket(plan, m) + 1 .. BracketLineEnd(plan, m) - 1 :
           plan[j] \in WhiteSpace

\* C34: a step definition starts at the start of a line; '#E<n>', '=' and
\* 'Tool[argument]' may be separated by white space, line breaks included; the
\* argument is the text between the first '[' after the tool name and the last
\* ']' of the line of the tool name, and a line with other text than white
\* space after its last ']' is not a step.
C34_StepShape ==
    [][StepTaken => StepShape(planOf(sessions[session]), CurrentMatch, NewRecord)]_vars

\* A definition broken over three lines was executed as a step, the line with
\* text after its bracket was not.
C34_Witness ==
    /\ pc = "solver"
    /\ \E i \in 1 .. Len(planOf(sessions[session])) - 4 :
           SubSeq(planOf(sessions[session]), i, i + 4) = <<"#", "E", "1", "\n", "=">>
    /\ sessions[session].toolExecutions[1].id = <<"#", "E", "1">>
    /\ sessions[session].toolExecutions[1].tool = <<"ListFiles">>
    /\ sessions[session].toolExecutions[1].argument = <<".">>
    /\ \A i \in DOMAIN sessions[session].toolExecutions :
           sessions[session].toolExecutions[i].id # <<"#", "E", "2">>

\* C34 as stated: besides the above, no line break stands between the start
\* of an executed step definition and the bracket that opens its argument.
C34_WholeStepOnOneLine ==
    [][StepTaken =>
         LET plan == planOf(sessions[session])
         IN  /\ StepShape(plan, CurrentMatch, NewRecord)
             /\ \A j \in CurrentMatch.index .. OpenBracket(plan, CurrentMatch) :
                    plan[j] # "\n"]_vars

-----------------------------------------------------------------------------
(* Steps that share an id *)

\* The id of a record without its "#E".
IdOf(record) == SubSeq(record.id, 3, Len(record.id))

\* The records of this pass with id k that carry no error, latest last.
ErrorFree(k) ==
    {i \in DOMAIN executions : IdOf(executions[i]) = k /\ executions[i].error = Undefined}

LatestErrorFree(k) == CHOOSE i \in ErrorFree(k) : \A o \in ErrorFree(k) : o <= i

\* The step's argument is one reference and nothing else.
LoneReference(raw) ==
    /\ Len(raw) >= 3
    /\ raw[1] = "#" /\ raw[2] = "E"
    /\ \A j \in 3 .. Len(raw) : raw[j] \in Digits

\* C39: when several steps of a plan carry the same id, a reference to that id
\* stands for the output of the latest earlier step with that id that recorded
\* no error: a step that records no error puts its output in the table in
\* place of what was there, a step that records an error leaves the table as
\* it was.
C39_LatestErrorFreeOutputWins ==
    [][StepTaken =>
         /\ IF NewRecord.error = Undefined
            THEN variables' = [k \in DOMAIN variables \cup {IdOf(NewRecord)} |->
                                  IF k = IdOf(NewRecord) THEN NewRecord.output
                                  ELSE variables[k]]
            ELSE variables' = variables
         /\ \A k \in RefsIn(CurrentMatch.rawArgument) :
                (LoneReference(CurrentMatch.rawArgument) /\ ErrorFree(k) # {}) =>
                    NewRecord.argument = trim(executions[LatestErrorFree(k)].output)]_vars

\* Three steps with id 1 ran: the second replaced the output of the first, the
\* third recorded an error; the reference that follows got the output of the
\* second.
C39_Witness ==
    /\ Len(executions) = 4
    /\ \A i \in 1 .. 3 : executions[i].id = <<"#", "E", "1">>
    /\ executions[1].error = Undefined
    /\ executions[2].error = Undefined
    /\ executions[3].error # Undefined
    /\ executions[1].output # <<>>
    /\ executions[2].output # <<>>
    /\ executions[2].output # executions[1].output
    /\ executions[4].argument = executions[2].output

-----------------------------------------------------------------------------
(* The end of a searchText run *)

\* One more step of a run of searchText that has not returned.
ScanGoesOn ==
    \/ \E answer \in FsAnswers : ScanStep(answer)
    \/ ScanDone

\* Runs over the trees of a few paths.  The file system answers every call, so
\* a run that can take a step takes one.
SearchLiveNext ==
    \/ \E argument \in SearchArguments, shape \in {"nested", "file", "unresolved"} :
           StartSearch(argument, shape)
    \/ ScanGoesOn

SearchLiveSpec == SearchInit /\ [][SearchLiveNext]_vars /\ WF_vars(ScanGoesOn)

-----------------------------------------------------------------------------
(* Properties of the end of a searchText run *)

\* searchText is in its loop; it has returned.
Scanning == call.op = "searchText" /\ call.result = Undefined

SearchReturned == call.op = "searchText" /\ call.result # Undefined

\* The condition of the loop of searchText.
LoopGoesOn == queue # <<>> /\ scannedFiles < maxFiles /\ Len(results) < maxResults

\* The names of a path below the start path.
NamesBelowStart(path) ==
    {path[i] : i \in Len(ResolvedPath(tree)) + 1 .. Len(path)}

\* C40: a run of searchText over a finite tree returns.  Until then no path is
\* taken from the queue twice, no entry named like a skipped directory is in
\* the queue, a path whose stat, readdir or readFile fails is dropped and the
\* scan goes on, and the run returns only when the queue is empty or one of
\* the two bounds is reached.
C40_SearchTerminates ==
    /\ Scanning ~> SearchReturned
    /\ [](Scanning =>
             /\ \A i \in DOMAIN queue :
                    /\ queue[i] \notin visited
                    /\ \A j \in DOMAIN queue : queue[j] = queue[i] => j = i
                    /\ NamesBelowStart(queue[i]) \cap skipDirectories = {})
    /\ [][\A answer \in FsAnswers :
              (ScanStep(answer) /\ (answer.stat = "fails" \/ answer.io = "fails")) =>
                  /\ Scanning'
                  /\ queue' = Tail(queue)
                  /\ results' = results]_vars
    /\ [][(Scanning /\ SearchReturned') => ~LoopGoesOn]_vars

\* A run over the nested tree returned with an empty queue after a directory
\* and a file could not be read: the files next to them were still scanned.
C40_Witness ==
    /\ SearchReturned
    /\ tree = "nested"
    /\ queue = <<>>
    /\ <<"src", "lib">> \in visited
    /\ <<"src", "lib", "c.ts">> \notin visited
    /\ scannedFiles = 1
    /\ reads = 1
    /\ Len(results) = FewMatches

=============================================================================
